---- MODULE Spec2Model ----
(***************************************************************************)
(* Model of the biomarker analytics core of healthinsight:                 *)
(*   backend/src/utils/normalizer.js       (name, unit, range, status)     *)
(*   backend/src/utils/parser.js           (processJsonData range fields)  *)
(*   backend/src/middleware/validation.js  (validateReferenceRanges)       *)
(*                                                                         *)
(* The program is a library of functions.  A behaviour is one call: the   *)
(* initial state holds the function called (op) and its arguments (args),  *)
(* drawn from bounded input sets; the action of that function computes     *)
(* what it returns (ret) and what it writes to the console (warnings).     *)
(*                                                                         *)
(* JavaScript numbers are IEEE 754 doubles, every operation rounded as the *)
(* language rounds it; null and undefined are values of their own and are  *)
(* coerced by ToNumber as the language does.                               *)
(***************************************************************************)
EXTENDS Integers, Sequences, FiniteSets, TLC

VARIABLES pc, op, args, ret, warnings

vars == <<pc, op, args, ret, warnings>>

-----------------------------------------------------------------------------
(* JavaScript numbers as IEEE 754 doubles                                  *)
(*                                                                         *)
(* The code's results depend on the rounding of every operation: the       *)
(* classifier compares quotients with 0.5, 0.1 and 0.9, the conversions    *)
(* multiply by decimal factors, the correlation code takes square roots    *)
(* and divides by them.  Here a number is the double itself: sign s,       *)
(* significand m and exponent e with value s * m * 2^e and                 *)
(* 2^52 <= m < 2^53, or zero, an infinity or NaN.  A significand does not  *)
(* fit TLC's integers: a natural number is the sequence of its digits to   *)
(* the base 2^15, the lowest first, without leading zeros (the empty       *)
(* sequence is 0).  A subnormal double, a multiple of 2^-1074 below        *)
(* 2^-1022, is written in the same way, with its low digits 0 and an       *)
(* exponent below -1074.  A zero has its sign.  Every operation computes   *)
(* the exact result and rounds it to the nearest double, ties to even: to  *)
(* 53 digits, to a multiple of 2^-1074 where these are fewer, and to the   *)
(* infinity from 2^1024 on.                                                *)

Base == 2^15

Limb(a, i) == IF 1 <= i /\ i <= Len(a) THEN a[i] ELSE 0

Bit(c) == IF c THEN 1 ELSE 0

Greatest(S) == CHOOSE i \in S : \A j \in S : j <= i

\* a without its leading zeros
BNorm(a) == SubSeq(a, 1, Greatest({0} \cup {i \in 1..Len(a) : a[i] # 0}))

RECURSIVE BFromInt(_)
BFromInt(i) == IF i = 0 THEN << >> ELSE <<i % Base>> \o BFromInt(i \div Base)

RECURSIVE BToInt(_)
BToInt(a) == IF a = << >> THEN 0 ELSE a[1] + Base * BToInt(Tail(a))

\* the sign of a - b, which is the sign at the highest digit that differs
BCmpAt(a, b, D) ==
  IF D = {} THEN 0 ELSE IF a[Greatest(D)] > b[Greatest(D)] THEN 1 ELSE -1

BCmp(a, b) ==
  IF Len(a) > Len(b) THEN 1
  ELSE IF Len(a) < Len(b) THEN -1
  ELSE BCmpAt(a, b, {i \in 1..Len(a) : a[i] # b[i]})

\* the carry into the i-th digit of a + b: some lower digit makes one and
\* the digits between pass it on
Carry(a, b, i) ==
  \E j \in 1..(i - 1) :
    /\ Limb(a, j) + Limb(b, j) >= Base
    /\ \A k \in (j + 1)..(i - 1) : Limb(a, k) + Limb(b, k) = Base - 1

BAddTo(a, b, n) ==
  BNorm([i \in 1..n |-> (Limb(a, i) + Limb(b, i) + Bit(Carry(a, b, i))) % Base])

BAdd(a, b) ==
  IF a = << >> THEN b
  ELSE IF b = << >> THEN a
  ELSE BAddTo(a, b, (IF Len(a) > Len(b) THEN Len(a) ELSE Len(b)) + 1)

\* the borrow from the i-th digit of a - b
Borrow(a, b, i) ==
  \E j \in 1..(i - 1) :
    /\ a[j] < Limb(b, j)
    /\ \A k \in (j + 1)..(i - 1) : a[k] = Limb(b, k)

\* a - b for a >= b
BSub(a, b) ==
  IF b = << >> THEN a
  ELSE BNorm([i \in 1..Len(a) |-> (a[i] - Limb(b, i) - Bit(Borrow(a, b, i)) + Base) % Base])

\* a * k for 0 <= k <= Base: the low halves of the products of the digits
\* and their high halves one digit up
BMulSmall(a, k) ==
  IF a = << >> \/ k = 0 THEN << >>
  ELSE BAdd(BNorm([i \in 1..Len(a) |-> (a[i] * k) % Base]),
            BNorm([i \in 1..(Len(a) + 1) |-> (Limb(a, i - 1) * k) \div Base]))

\* a * Base^n
BShiftLimbs(a, n) == IF a = << >> THEN a ELSE [i \in 1..n |-> 0] \o a

RECURSIVE BMul(_, _)
BMul(a, b) ==
  IF b = << >> THEN << >>
  ELSE BAdd(BMulSmall(a, b[1]), BShiftLimbs(BMul(a, Tail(b)), 1))

\* a * 2^k
Shl(a, k) ==
  IF k = 0 \/ a = << >> THEN a
  ELSE BShiftLimbs(BMulSmall(a, 2^(k % 15)), k \div 15)

\* a \div 2^(15 * n + r) for r < 15
ShrBy(a, n, r) ==
  BNorm([i \in 1..(Len(a) - n) |->
           Limb(a, i + n) \div 2^r + (Limb(a, i + n + 1) % 2^r) * 2^(15 - r)])

\* a \div 2^k
Shr(a, k) == IF k = 0 \/ a = << >> THEN a ELSE ShrBy(a, k \div 15, k % 15)

\* the number of binary digits of a digit x
BitLenSmall(x) == CHOOSE n \in 0..15 : x < 2^n /\ (n = 0 \/ 2^(n - 1) <= x)

\* the number of binary digits of a
BitLen(a) == IF a = << >> THEN 0 ELSE 15 * (Len(a) - 1) + BitLenSmall(a[Len(a)])

Precision == 53

Dbl(s, m, e) == [t |-> "dbl", s |-> s, m |-> m, e |-> e]
Zero(s) == [t |-> "dbl", s |-> s, m |-> << >>, e |-> 0]
DZero   == Zero(1)
DNaN    == [t |-> "nan", s |-> 1, m |-> << >>, e |-> 0]
DInf(s) == [t |-> "inf", s |-> s, m |-> << >>, e |-> 0]

IsZero(a)   == a.t = "dbl" /\ a.m = << >>
IsFinite(a) == a.t = "dbl"

\* s * q * 2^E for a q of at most 53 digits or, after a carry, of one more
\* and even: the significand brought to 53 digits, or the infinity from
\* 2^1024 on
Normal(s, q, E) ==
  IF q = << >> THEN Zero(s)
  ELSE IF E + BitLen(q) > 1024 THEN DInf(s)
  ELSE IF BitLen(q) > Precision THEN Dbl(s, Shr(q, 1), E + 1)
  ELSE Dbl(s, Shl(q, Precision - BitLen(q)), E - (Precision - BitLen(q)))

\* s * q * 2^E or the next double away from 0: c is the sign of what was cut
\* off from q less half a unit of q; a tie goes to the even significand
\* unless more was cut off than the digits show (sticky)
Nearest(s, q, E, c, sticky) ==
  IF c > 0 \/ (c = 0 /\ (sticky \/ Limb(q, 1) % 2 = 1))
  THEN Normal(s, BAdd(q, <<1>>), E)
  ELSE Normal(s, q, E)

\* the k lowest binary digits of M cut off
RoundOff(s, M, E, sticky, k) ==
  Nearest(s, Shr(M, k), E + k,
          BCmp(Shl(BSub(M, Shl(Shr(M, k), k)), 1), Shl(<<1>>, k)), sticky)

\* the number of low digits of a number of L digits with the lowest at 2^E
\* that a double does not hold: those beyond the 53 highest and those below
\* 2^-1074
CutOff(L, E) ==
  IF L - Precision > -1074 - E THEN L - Precision ELSE -1074 - E

RoundTo(s, M, E, sticky, k) ==
  IF k <= 0 THEN Normal(s, M, E) ELSE RoundOff(s, M, E, sticky, k)

\* the double nearest to s * (M + f) * 2^E, where 0 < f < 1 if sticky and
\* f = 0 otherwise; a sticky M has more digits than the significand
RoundDouble(s, M, E, sticky) ==
  IF M = << >> THEN Zero(s)
  ELSE RoundTo(s, M, E, sticky, CutOff(BitLen(M), E))

\* the double of an integer
FromInt(i) ==
  RoundDouble(IF i < 0 THEN -1 ELSE 1, BFromInt(IF i < 0 THEN -i ELSE i), 0, FALSE)

FNeg(a) == IF a.t = "nan" THEN a ELSE [a EXCEPT !.s = -a.s]
FAbs(a) == [a EXCEPT !.s = 1]

\* the sum of two finite doubles other than 0, their significands brought to
\* the exponent e
AddAligned(a, b, A, B, e) ==
  IF a.s = b.s THEN RoundDouble(a.s, BAdd(A, B), e, FALSE)
  ELSE IF BCmp(A, B) = 0 THEN DZero
  ELSE IF BCmp(A, B) > 0 THEN RoundDouble(a.s, BSub(A, B), e, FALSE)
  ELSE RoundDouble(b.s, BSub(B, A), e, FALSE)

AddFinite(a, b, e) == AddAligned(a, b, Shl(a.m, a.e - e), Shl(b.m, b.e - e), e)

\* a + b
FAdd(a, b) ==
  IF a.t = "nan" \/ b.t = "nan" THEN DNaN
  ELSE IF a.t = "inf" THEN (IF b.t = "inf" /\ b.s # a.s THEN DNaN ELSE a)
  ELSE IF b.t = "inf" THEN b
  ELSE IF IsZero(a) /\ IsZero(b) THEN Zero(IF a.s = b.s THEN a.s ELSE 1)
  ELSE IF IsZero(a) THEN b
  ELSE IF IsZero(b) THEN a
  ELSE AddFinite(a, b, IF a.e < b.e THEN a.e ELSE b.e)

\* a - b
FSub(a, b) == FAdd(a, FNeg(b))

\* a * b
FMul(a, b) ==
  IF a.t = "nan" \/ b.t = "nan" THEN DNaN
  ELSE IF a.t = "inf" \/ b.t = "inf"
  THEN (IF IsZero(a) \/ IsZero(b) THEN DNaN ELSE DInf(a.s * b.s))
  ELSE IF IsZero(a) \/ IsZero(b) THEN Zero(a.s * b.s)
  ELSE RoundDouble(a.s * b.s, BMul(a.m, b.m), a.e + b.e, FALSE)

\* the digit cur \div d estimated from the two top digits of cur and the
\* top digit of d, for cur < d * Base: it is not below the digit, and at most
\* 2 above it when the top digit of d is Base \div 2 or more
Estimate(cur, d) ==
  IF (Limb(cur, Len(d) + 1) * Base + Limb(cur, Len(d))) \div d[Len(d)] >= Base
  THEN Base - 1
  ELSE (Limb(cur, Len(d) + 1) * Base + Limb(cur, Len(d))) \div d[Len(d)]

\* the greatest digit with digit * d <= cur, from a k that is not below it
RECURSIVE QuotientDigit(_, _, _)
QuotientDigit(cur, d, k) ==
  IF k = 0 THEN 0
  ELSE IF BCmp(BMulSmall(d, k), cur) <= 0 THEN k
  ELSE QuotientDigit(cur, d, k - 1)

\* a step of long division, from the quotient of the higher digits and the
\* remainder with the next digit: the quotient with its next digit k, the
\* lowest first, and the remainder
DivideOn(quotient, cur, d, k) == << <<k>> \o quotient, BSub(cur, BMulSmall(d, k)) >>

DivideDigit(quotient, cur, d) ==
  IF BCmp(cur, d) < 0 THEN << <<0>> \o quotient, cur >>
  ELSE DivideOn(quotient, cur, d, QuotientDigit(cur, d, Estimate(cur, d)))

\* the step for the next digit x of the dividend after the steps with the
\* result higher, <<quotient, remainder>>
DivideStep(higher, x, d) ==
  IF higher[2] = << >> /\ x = 0 THEN << <<0>> \o higher[1], << >> >>
  ELSE DivideDigit(higher[1], BNorm(<<x>> \o higher[2]), d)

\* long division of the digits of a from the i-th up by d, whose top digit
\* is Base \div 2 or more: <<quotient, remainder>>.  The top digits of a,
\* one fewer than d has, are below d and are the first remainder
RECURSIVE BDivModAt(_, _, _)
BDivModAt(a, d, i) ==
  IF i > Len(a) - Len(d) + 1 THEN << << >>, BNorm(SubSeq(a, i, Len(a))) >>
  ELSE DivideStep(BDivModAt(a, d, i + 1), a[i], d)

\* the quotient and the remainder of a division of numbers multiplied by 2^k
Unshifted(qr, k) == <<qr[1], Shr(qr[2], k)>>

\* the division of a by d with both multiplied by 2^k, which brings the top
\* digit of d to Base \div 2 or more
Shifted(a, d, k) == Unshifted(BDivModAt(Shl(a, k), Shl(d, k), 1), k)

\* <<a \div d, a % d>> for d # 0
BDivMod(a, d) == Shifted(a, d, 15 - BitLenSmall(d[Len(d)]))

\* the double nearest to s * (qr[1] + f) * 2^e, where f > 0 iff qr[2]
\* is not 0
Quotient(s, qr, e) == RoundDouble(s, BNorm(qr[1]), e, qr[2] # << >>)

\* a / b
FDiv(a, b) ==
  IF a.t = "nan" \/ b.t = "nan" THEN DNaN
  ELSE IF a.t = "inf" THEN (IF b.t = "inf" THEN DNaN ELSE DInf(a.s * b.s))
  ELSE IF b.t = "inf" THEN Zero(a.s * b.s)
  ELSE IF IsZero(b) THEN (IF IsZero(a) THEN DNaN ELSE DInf(a.s * b.s))
  ELSE IF IsZero(a) THEN Zero(a.s * b.s)
  ELSE Quotient(a.s * b.s, BDivMod(Shl(a.m, Precision + 2), b.m),
                a.e - b.e - (Precision + 2))

\* the greatest r with r * r <= t
Root(t) == CHOOSE r \in 0..Base : r * r <= t /\ t < (r + 1) * (r + 1)

\* a number not below the square root of n, from the top digits of n
Above(n) ==
  IF Len(n) % 2 = 0
  THEN BShiftLimbs(BFromInt(Root(n[Len(n)] * Base + n[Len(n) - 1]) + 1), (Len(n) - 2) \div 2)
  ELSE BShiftLimbs(BFromInt(Root(n[Len(n)]) + 1), (Len(n) - 1) \div 2)

\* Newton's iteration for the integer square root of n from an x not below
\* it, with q = n \div x: the next x is (x + q) \div 2, and the root is the
\* first x that the next one does not go below, which is when q >= x
RECURSIVE Newton(_, _, _)

NewtonFrom(n, x) == Newton(n, x, BNorm(BDivMod(n, x)[1]))

Newton(n, x, q) ==
  IF BCmp(q, x) >= 0 THEN x ELSE NewtonFrom(n, Shr(BAdd(x, q), 1))

SquareRoot(n) == NewtonFrom(n, Above(n))

\* the root and what is left of n, <<root, n - root^2>>
WithRemainder(n, root) == <<root, BSub(n, BMul(root, root))>>

\* the square root of M * 2^E for an even E and M of 109 or 110 digits
RootOf(M, E) ==
  Quotient(1, WithRemainder(M, SquareRoot(M)), E \div 2)

\* Math.sqrt(a)
FSqrt(a) ==
  IF a.t = "nan" THEN DNaN
  ELSE IF IsZero(a) THEN a
  ELSE IF a.s < 0 THEN DNaN
  ELSE IF a.t = "inf" THEN a
  ELSE IF a.e % 2 = 0 THEN RootOf(Shl(a.m, 56), a.e - 56)
  ELSE RootOf(Shl(a.m, 57), a.e - 57)

\* the sign of a - b for doubles that are not NaN
FCmp(a, b) ==
  IF a.t = "inf" \/ b.t = "inf" THEN
    (IF a.t = b.t /\ a.s = b.s THEN 0
     ELSE IF a.t = "inf" THEN a.s ELSE -b.s)
  ELSE IF IsZero(a) THEN (IF IsZero(b) THEN 0 ELSE -b.s)
  ELSE IF IsZero(b) THEN a.s
  ELSE IF a.s # b.s THEN a.s
  ELSE IF a.e # b.e THEN (IF a.e > b.e THEN a.s ELSE -a.s)
  ELSE a.s * BCmp(a.m, b.m)

\* a === b, a >= b, a > b
FEq(a, b) == a.t # "nan" /\ b.t # "nan" /\ FCmp(a, b) = 0
FGe(a, b) == a.t # "nan" /\ b.t # "nan" /\ FCmp(a, b) >= 0
FGt(a, b) == a.t # "nan" /\ b.t # "nan" /\ FCmp(a, b) > 0

\* the double of the decimal literal n/d
Decimal(n, d) == FDiv(FromInt(n), FromInt(d))

-----------------------------------------------------------------------------
(* JavaScript values of the normalizer: numbers, null and undefined        *)

\* the number of the decimal literal n/d
Num(n, d) == Decimal(n, d)

Int2Num(i) == FromInt(i)
NaN        == DNaN
PosInf     == DInf(1)
NegInf     == DInf(-1)
Null       == [t |-> "null", s |-> 1, m |-> << >>, e |-> 0]
Undefined  == [t |-> "undefined", s |-> 1, m |-> << >>, e |-> 0]

\* ToNumber: null -> 0, undefined -> NaN
ToNumber(x) ==
  CASE x.t = "null"      -> DZero
    [] x.t = "undefined" -> DNaN
    [] OTHER             -> x

\* !x for a number, null or undefined
Falsy(x) == x.t \in {"null", "undefined", "nan"} \/ IsZero(x)

\* a < b
JsLt(a, b) == FGt(ToNumber(b), ToNumber(a))

\* a > b
JsGt(a, b) == FGt(ToNumber(a), ToNumber(b))

\* -a
JsNeg(a) == FNeg(ToNumber(a))

\* a + b
JsAdd(a, b) == FAdd(ToNumber(a), ToNumber(b))

\* a - b
JsSub(a, b) == FSub(ToNumber(a), ToNumber(b))

\* a * b
JsMul(a, b) == FMul(ToNumber(a), ToNumber(b))

\* a / b
JsDiv(a, b) == FDiv(ToNumber(a), ToNumber(b))

\* floor(|a| + 1/2) for a > 0 and ceil(|a| - 1/2) for a < 0, where
\* |a| = m / 2^k
HalfUp(s, m, k) ==
  IF s > 0 THEN Shr(BAdd(m, Shl(<<1>>, k - 1)), k)
  ELSE Shr(BAdd(m, BSub(Shl(<<1>>, k - 1), <<1>>)), k)

\* the nearest integer to a number, a tie going up
Rounded(a) ==
  IF a.t # "dbl" \/ IsZero(a) THEN a
  ELSE IF a.e >= 0 THEN a
  ELSE RoundDouble(a.s, HalfUp(a.s, a.m, -a.e), 0, FALSE)

\* Math.round(a)
MathRound(a) == Rounded(ToNumber(a))

-----------------------------------------------------------------------------
(* normalizer.js: determineAbnormalStatus                                  *)

Result(status, severity, percentFromRange) ==
  [status |-> status, severity |-> severity, percentFromRange |-> percentFromRange]

\* a <= b, used by the mutants only
JsLe(a, b) == JsLt(a, b) \/ (ToNumber(a).t # "nan" /\ ToNumber(a) = ToNumber(b))

\* mutant: a deviation of exactly one half already counts as high
SeverityLevel_AtHalf(severity) ==
  IF JsLe(Num(5, 10), severity) THEN "high" ELSE "low"

\* severity > 0.5 ? 'high' : 'low'
SeverityLevel(severity) ==
  IF JsGt(severity, Num(5, 10)) THEN "high" ELSE "low"

\* mutant: the percentage below the range is reported without its sign
BelowRange_Unsigned(value, minRange) ==
  Result("below_range",
         SeverityLevel(JsDiv(JsSub(minRange, value), minRange)),
         MathRound(JsMul(JsSub(Int2Num(1), JsDiv(value, minRange)), Int2Num(100))))

\* the branch value < minRange
BelowRange(value, minRange) ==
  Result("below_range",
         SeverityLevel(JsDiv(JsSub(minRange, value), minRange)),
         JsNeg(MathRound(JsMul(JsSub(Int2Num(1), JsDiv(value, minRange)),
                               Int2Num(100)))))

\* the branch value > maxRange
AboveRange(value, maxRange) ==
  Result("above_range",
         SeverityLevel(JsDiv(JsSub(value, maxRange), maxRange)),
         MathRound(JsMul(JsSub(JsDiv(value, maxRange), Int2Num(1)), Int2Num(100))))

\* mutant: the borderline bands include their limits 0.1 and 0.9
PositionStatus_Inclusive(position) ==
  IF JsLe(position, Num(1, 10)) THEN
    Result("borderline_low", "minimal", DZero)
  ELSE IF JsLe(Num(9, 10), position) THEN
    Result("borderline_high", "minimal", DZero)
  ELSE
    Result("normal", "none", DZero)

\* the status of a position within the range
PositionStatus(position) ==
  IF JsLt(position, Num(1, 10)) THEN
    Result("borderline_low", "minimal", DZero)
  ELSE IF JsGt(position, Num(9, 10)) THEN
    Result("borderline_high", "minimal", DZero)
  ELSE
    Result("normal", "none", DZero)

\* the branch within the range: position = (value - minRange) / rangeWidth
WithinRange(value, minRange, maxRange) ==
  PositionStatus(JsDiv(JsSub(value, minRange), JsSub(maxRange, minRange)))

\* mutant: a value equal to a bound is outside the range
determineAbnormalStatus_BoundsOutside(value, minRange, maxRange) ==
  IF JsLe(value, minRange) THEN BelowRange(value, minRange)
  ELSE IF JsLe(maxRange, value) THEN AboveRange(value, maxRange)
  ELSE WithinRange(value, minRange, maxRange)

determineAbnormalStatus(value, minRange, maxRange) ==
  IF JsLt(value, minRange) THEN BelowRange(value, minRange)
  ELSE IF JsGt(value, maxRange) THEN AboveRange(value, maxRange)
  ELSE WithinRange(value, minRange, maxRange)

-----------------------------------------------------------------------------
(* normalizer.js: biomarkerStandardization, standardizeBiomarker           *)
(*                                                                         *)
(* A name is the sequence of its characters.  A unit is the string of the  *)
(* source, the micro sign and the superscript two being the characters     *)
(* they are there, so that "µmol/L" and "umol/L" are two units.            *)

Entry(key, code, standardUnit, category) ==
  [key |-> key, code |-> code, standardUnit |-> standardUnit, category |-> category]

biomarkerStandardization ==
  <<
    Entry(<<"h", "e", "m", "o", "g", "l", "o", "b", "i", "n">>, "718-7", "g/dL", "CBC"),
    Entry(<<"h", "g", "b">>, "718-7", "g/dL", "CBC"),
    Entry(<<"h", "b">>, "718-7", "g/dL", "CBC"),
    Entry(<<"w", "b", "c">>, "6690-2", "10^3/µL", "CBC"),
    Entry(<<"w", "h", "i", "t", "e", " ", "b", "l", "o", "o", "d", " ", "c", "e", "l", "l", " ", "c", "o", "u", "n", "t">>, "6690-2", "10^3/µL", "CBC"),
    Entry(<<"r", "b", "c">>, "789-8", "10^6/µL", "CBC"),
    Entry(<<"r", "e", "d", " ", "b", "l", "o", "o", "d", " ", "c", "e", "l", "l", " ", "c", "o", "u", "n", "t">>, "789-8", "10^6/µL", "CBC"),
    Entry(<<"p", "l", "a", "t", "e", "l", "e", "t", "s">>, "777-3", "10^3/µL", "CBC"),
    Entry(<<"p", "l", "t">>, "777-3", "10^3/µL", "CBC"),
    Entry(<<"h", "e", "m", "a", "t", "o", "c", "r", "i", "t">>, "4544-3", "%", "CBC"),
    Entry(<<"h", "c", "t">>, "4544-3", "%", "CBC"),
    Entry(<<"m", "c", "v">>, "787-2", "fL", "CBC"),
    Entry(<<"m", "c", "h">>, "785-6", "pg", "CBC"),
    Entry(<<"m", "c", "h", "c">>, "786-4", "g/dL", "CBC"),
    Entry(<<"r", "d", "w">>, "788-0", "%", "CBC"),
    Entry(<<"n", "e", "u", "t", "r", "o", "p", "h", "i", "l", "s">>, "751-8", "%", "CBC"),
    Entry(<<"l", "y", "m", "p", "h", "o", "c", "y", "t", "e", "s">>, "731-0", "%", "CBC"),
    Entry(<<"m", "o", "n", "o", "c", "y", "t", "e", "s">>, "742-7", "%", "CBC"),
    Entry(<<"e", "o", "s", "i", "n", "o", "p", "h", "i", "l", "s">>, "711-2", "%", "CBC"),
    Entry(<<"b", "a", "s", "o", "p", "h", "i", "l", "s">>, "704-7", "%", "CBC"),
    Entry(<<"g", "l", "u", "c", "o", "s", "e">>, "2345-7", "mg/dL", "CMP"),
    Entry(<<"b", "u", "n">>, "3094-0", "mg/dL", "CMP"),
    Entry(<<"b", "l", "o", "o", "d", " ", "u", "r", "e", "a", " ", "n", "i", "t", "r", "o", "g", "e", "n">>, "3094-0", "mg/dL", "CMP"),
    Entry(<<"c", "r", "e", "a", "t", "i", "n", "i", "n", "e">>, "2160-0", "mg/dL", "CMP"),
    Entry(<<"e", "g", "f", "r">>, "33914-3", "mL/min/1.73m²", "CMP"),
    Entry(<<"s", "o", "d", "i", "u", "m">>, "2951-2", "mmol/L", "CMP"),
    Entry(<<"n", "a">>, "2951-2", "mmol/L", "CMP"),
    Entry(<<"p", "o", "t", "a", "s", "s", "i", "u", "m">>, "2823-3", "mmol/L", "CMP"),
    Entry(<<"k">>, "2823-3", "mmol/L", "CMP"),
    Entry(<<"c", "h", "l", "o", "r", "i", "d", "e">>, "2075-0", "mmol/L", "CMP"),
    Entry(<<"c", "l">>, "2075-0", "mmol/L", "CMP"),
    Entry(<<"c", "o", "2">>, "2028-9", "mmol/L", "CMP"),
    Entry(<<"c", "a", "l", "c", "i", "u", "m">>, "17861-6", "mg/dL", "CMP"),
    Entry(<<"c", "a">>, "17861-6", "mg/dL", "CMP"),
    Entry(<<"p", "r", "o", "t", "e", "i", "n">>, "2885-2", "g/dL", "CMP"),
    Entry(<<"a", "l", "b", "u", "m", "i", "n">>, "1751-7", "g/dL", "CMP"),
    Entry(<<"g", "l", "o", "b", "u", "l", "i", "n">>, "2336-6", "g/dL", "CMP"),
    Entry(<<"a", "/", "g", " ", "r", "a", "t", "i", "o">>, "1759-0", "", "CMP"),
    Entry(<<"b", "i", "l", "i", "r", "u", "b", "i", "n">>, "1975-2", "mg/dL", "CMP"),
    Entry(<<"a", "l", "t">>, "1742-6", "U/L", "CMP"),
    Entry(<<"a", "s", "t">>, "1920-8", "U/L", "CMP"),
    Entry(<<"a", "l", "p">>, "6768-6", "U/L", "CMP"),
    Entry(<<"c", "h", "o", "l", "e", "s", "t", "e", "r", "o", "l">>, "2093-3", "mg/dL", "Lipid"),
    Entry(<<"t", "r", "i", "g", "l", "y", "c", "e", "r", "i", "d", "e", "s">>, "2571-8", "mg/dL", "Lipid"),
    Entry(<<"h", "d", "l">>, "2085-9", "mg/dL", "Lipid"),
    Entry(<<"l", "d", "l">>, "13457-7", "mg/dL", "Lipid"),
    Entry(<<"v", "l", "d", "l">>, "2091-7", "mg/dL", "Lipid"),
    Entry(<<"t", "s", "h">>, "3016-3", "mIU/L", "Thyroid"),
    Entry(<<"t", "3">>, "3053-6", "ng/dL", "Thyroid"),
    Entry(<<"t", "4">>, "3026-2", "µg/dL", "Thyroid"),
    Entry(<<"f", "r", "e", "e", " ", "t", "3">>, "30123-3", "pg/mL", "Thyroid"),
    Entry(<<"f", "r", "e", "e", " ", "t", "4">>, "3024-7", "ng/dL", "Thyroid"),
    Entry(<<"u", "r", "i", "n", "e", " ", "g", "l", "u", "c", "o", "s", "e">>, "5792-7", "mg/dL", "Urinalysis"),
    Entry(<<"u", "r", "i", "n", "e", " ", "p", "r", "o", "t", "e", "i", "n">>, "5804-0", "mg/dL", "Urinalysis"),
    Entry(<<"u", "r", "i", "n", "e", " ", "p", "h">>, "5803-2", "", "Urinalysis"),
    Entry(<<"u", "r", "i", "n", "e", " ", "s", "p", "e", "c", "i", "f", "i", "c", " ", "g", "r", "a", "v", "i", "t", "y">>, "5811-5", "", "Urinalysis"),
    Entry(<<"u", "r", "i", "n", "e", " ", "k", "e", "t", "o", "n", "e", "s">>, "5797-6", "mg/dL", "Urinalysis"),
    Entry(<<"n", "g", "a", "l">>, "62238-1", "ng/mL", "Novel Kidney"),
    Entry(<<"k", "i", "m", "-", "1">>, "82642-1", "ng/mL", "Novel Kidney"),
    Entry(<<"t", "i", "m", "p", "-", "2">>, "89579-9", "ng/mL", "Novel Kidney"),
    Entry(<<"i", "g", "f", "b", "p", "7">>, "89580-7", "ng/mL", "Novel Kidney")
  >>

\* the names every object literal inherits from Object.prototype that consist
\* of lower-case characters only; each holds a truthy value (a function, an
\* object) with no enumerable property of its own
ObjectPrototypeKeys ==
  { <<"c", "o", "n", "s", "t", "r", "u", "c", "t", "o", "r">>,
    <<"_", "_", "p", "r", "o", "t", "o", "_", "_">> }

\* A character is written as itself if it is a printable character of
\* ASCII other than the quotation mark, the backslash and the grave accent,
\* as "\t", "\n", "\f" or "\r" if it is one of these, and by its code point
\* otherwise: "U+0022", "U+00C9", "U+212A", "U+10400", in four hexadecimal
\* digits or more.

\* the characters of ASCII from the blank (code point 32) on
Printable ==
  << " ", "!", "U+0022", "#", "$", "%", "&", "'", "(", ")", "*", "+",
     ",", "-", ".", "/", "0", "1", "2", "3", "4", "5", "6", "7",
     "8", "9", ":", ";", "<", "=", ">", "?", "@", "A", "B", "C",
     "D", "E", "F", "G", "H", "I", "J", "K", "L", "M", "N", "O",
     "P", "Q", "R", "S", "T", "U", "V", "W", "X", "Y", "Z", "[",
     "U+005C", "]", "^", "_", "U+0060", "a", "b", "c", "d", "e", "f", "g",
     "h", "i", "j", "k", "l", "m", "n", "o", "p", "q", "r", "s",
     "t", "u", "v", "w", "x", "y", "z", "{", "|", "}", "~" >>

HexDigits ==
  <<"0", "1", "2", "3", "4", "5", "6", "7", "8", "9", "A", "B", "C", "D", "E", "F">>

\* c in hexadecimal digits, n of them or more
RECURSIVE Hex(_, _)
Hex(c, n) ==
  IF c = 0 /\ n <= 0 THEN "" ELSE Hex(c \div 16, n - 1) \o HexDigits[(c % 16) + 1]

\* the character with the code point c
Char(c) ==
  IF 32 <= c /\ c <= 126 THEN Printable[c - 31]
  ELSE IF c = 9 THEN "\t"
  ELSE IF c = 10 THEN "\n"
  ELSE IF c = 12 THEN "\f"
  ELSE IF c = 13 THEN "\r"
  ELSE "U+" \o Hex(c, 4)

\* the characters with their code points in one of the ranges <<first, last>>
Chars(ranges) ==
  UNION { { Char(c) : c \in ranges[i][1]..ranges[i][2] } : i \in 1..Len(ranges) }

\* The lower-case mappings of the Unicode character database that
\* toLowerCase applies: <<first, last, step, distance>> maps every step-th
\* code point from first to last to the code point at the distance.  They
\* are the mappings of Unicode 17.0; the last ranges are the letters that
\* versions 16.0 and 17.0 added.
lowerCaseRanges ==
  << <<65, 90, 1, 32>>, <<192, 214, 1, 32>>, <<216, 222, 1, 32>>,
     <<256, 302, 2, 1>>, <<306, 310, 2, 1>>, <<313, 327, 2, 1>>,
     <<330, 374, 2, 1>>, <<376, 376, 1, -121>>, <<377, 381, 2, 1>>,
     <<385, 385, 1, 210>>, <<386, 388, 2, 1>>, <<390, 390, 1, 206>>,
     <<391, 391, 1, 1>>, <<393, 394, 1, 205>>, <<395, 395, 1, 1>>,
     <<398, 398, 1, 79>>, <<399, 399, 1, 202>>, <<400, 400, 1, 203>>,
     <<401, 401, 1, 1>>, <<403, 403, 1, 205>>, <<404, 404, 1, 207>>,
     <<406, 406, 1, 211>>, <<407, 407, 1, 209>>, <<408, 408, 1, 1>>,
     <<412, 412, 1, 211>>, <<413, 413, 1, 213>>, <<415, 415, 1, 214>>,
     <<416, 420, 2, 1>>, <<422, 422, 1, 218>>, <<423, 423, 1, 1>>,
     <<425, 425, 1, 218>>, <<428, 428, 1, 1>>, <<430, 430, 1, 218>>,
     <<431, 431, 1, 1>>, <<433, 434, 1, 217>>, <<435, 437, 2, 1>>,
     <<439, 439, 1, 219>>, <<440, 440, 1, 1>>, <<444, 444, 1, 1>>,
     <<452, 452, 1, 2>>, <<453, 453, 1, 1>>, <<455, 455, 1, 2>>,
     <<456, 456, 1, 1>>, <<458, 458, 1, 2>>, <<459, 475, 2, 1>>,
     <<478, 494, 2, 1>>, <<497, 497, 1, 2>>, <<498, 500, 2, 1>>,
     <<502, 502, 1, -97>>, <<503, 503, 1, -56>>, <<504, 542, 2, 1>>,
     <<544, 544, 1, -130>>, <<546, 562, 2, 1>>, <<570, 570, 1, 10795>>,
     <<571, 571, 1, 1>>, <<573, 573, 1, -163>>, <<574, 574, 1, 10792>>,
     <<577, 577, 1, 1>>, <<579, 579, 1, -195>>, <<580, 580, 1, 69>>,
     <<581, 581, 1, 71>>, <<582, 590, 2, 1>>, <<880, 882, 2, 1>>,
     <<886, 886, 1, 1>>, <<895, 895, 1, 116>>, <<902, 902, 1, 38>>,
     <<904, 906, 1, 37>>, <<908, 908, 1, 64>>, <<910, 911, 1, 63>>,
     <<913, 929, 1, 32>>, <<931, 939, 1, 32>>, <<975, 975, 1, 8>>,
     <<984, 1006, 2, 1>>, <<1012, 1012, 1, -60>>, <<1015, 1015, 1, 1>>,
     <<1017, 1017, 1, -7>>, <<1018, 1018, 1, 1>>, <<1021, 1023, 1, -130>>,
     <<1024, 1039, 1, 80>>, <<1040, 1071, 1, 32>>, <<1120, 1152, 2, 1>>,
     <<1162, 1214, 2, 1>>, <<1216, 1216, 1, 15>>, <<1217, 1229, 2, 1>>,
     <<1232, 1326, 2, 1>>, <<1329, 1366, 1, 48>>, <<4256, 4293, 1, 7264>>,
     <<4295, 4295, 1, 7264>>, <<4301, 4301, 1, 7264>>,
     <<5024, 5103, 1, 38864>>, <<5104, 5109, 1, 8>>, <<7312, 7354, 1, -3008>>,
     <<7357, 7359, 1, -3008>>, <<7680, 7828, 2, 1>>, <<7838, 7838, 1, -7615>>,
     <<7840, 7934, 2, 1>>, <<7944, 7951, 1, -8>>, <<7960, 7965, 1, -8>>,
     <<7976, 7983, 1, -8>>, <<7992, 7999, 1, -8>>, <<8008, 8013, 1, -8>>,
     <<8025, 8031, 2, -8>>, <<8040, 8047, 1, -8>>, <<8072, 8079, 1, -8>>,
     <<8088, 8095, 1, -8>>, <<8104, 8111, 1, -8>>, <<8120, 8121, 1, -8>>,
     <<8122, 8123, 1, -74>>, <<8124, 8124, 1, -9>>, <<8136, 8139, 1, -86>>,
     <<8140, 8140, 1, -9>>, <<8152, 8153, 1, -8>>, <<8154, 8155, 1, -100>>,
     <<8168, 8169, 1, -8>>, <<8170, 8171, 1, -112>>, <<8172, 8172, 1, -7>>,
     <<8184, 8185, 1, -128>>, <<8186, 8187, 1, -126>>, <<8188, 8188, 1, -9>>,
     <<8486, 8486, 1, -7517>>, <<8490, 8490, 1, -8383>>,
     <<8491, 8491, 1, -8262>>, <<8498, 8498, 1, 28>>, <<8544, 8559, 1, 16>>,
     <<8579, 8579, 1, 1>>, <<9398, 9423, 1, 26>>, <<11264, 11311, 1, 48>>,
     <<11360, 11360, 1, 1>>, <<11362, 11362, 1, -10743>>,
     <<11363, 11363, 1, -3814>>, <<11364, 11364, 1, -10727>>,
     <<11367, 11371, 2, 1>>, <<11373, 11373, 1, -10780>>,
     <<11374, 11374, 1, -10749>>, <<11375, 11375, 1, -10783>>,
     <<11376, 11376, 1, -10782>>, <<11378, 11378, 1, 1>>,
     <<11381, 11381, 1, 1>>, <<11390, 11391, 1, -10815>>,
     <<11392, 11490, 2, 1>>, <<11499, 11501, 2, 1>>, <<11506, 11506, 1, 1>>,
     <<42560, 42604, 2, 1>>, <<42624, 42650, 2, 1>>, <<42786, 42798, 2, 1>>,
     <<42802, 42862, 2, 1>>, <<42873, 42875, 2, 1>>,
     <<42877, 42877, 1, -35332>>, <<42878, 42886, 2, 1>>,
     <<42891, 42891, 1, 1>>, <<42893, 42893, 1, -42280>>,
     <<42896, 42898, 2, 1>>, <<42902, 42920, 2, 1>>,
     <<42922, 42922, 1, -42308>>, <<42923, 42923, 1, -42319>>,
     <<42924, 42924, 1, -42315>>, <<42925, 42925, 1, -42305>>,
     <<42926, 42926, 1, -42308>>, <<42928, 42928, 1, -42258>>,
     <<42929, 42929, 1, -42282>>, <<42930, 42930, 1, -42261>>,
     <<42931, 42931, 1, 928>>, <<42932, 42946, 2, 1>>,
     <<42948, 42948, 1, -48>>, <<42949, 42949, 1, -42307>>,
     <<42950, 42950, 1, -35384>>, <<42951, 42953, 2, 1>>,
     <<42960, 42960, 1, 1>>, <<42966, 42968, 2, 1>>, <<42997, 42997, 1, 1>>,
     <<65313, 65338, 1, 32>>, <<66560, 66599, 1, 40>>,
     <<66736, 66771, 1, 40>>, <<66928, 66938, 1, 39>>,
     <<66940, 66954, 1, 39>>, <<66956, 66962, 1, 39>>,
     <<66964, 66965, 1, 39>>, <<68736, 68786, 1, 64>>,
     <<71840, 71871, 1, 32>>, <<93760, 93791, 1, 32>>,
     <<125184, 125217, 1, 34>>,
     <<7305, 7305, 1, 1>>, <<42955, 42955, 1, -42343>>,
     <<42956, 42958, 2, 1>>, <<42962, 42964, 2, 1>>, <<42970, 42970, 1, 1>>,
     <<42972, 42972, 1, -42561>>, <<68944, 68965, 1, 32>>,
     <<93856, 93880, 1, 27>> >>
\* The characters with the property Cased that are not Case_Ignorable, and
\* the characters with the property Case_Ignorable, which the condition
\* Final_Sigma looks at: ranges of code points <<first, last>>.  They are
\* those of Unicode 17.0, the last ranges being what the versions from 15.0
\* on added.
casedRanges ==
  << <<65, 90>>, <<97, 122>>, <<170, 170>>, <<181, 181>>, <<186, 186>>,
     <<192, 214>>, <<216, 246>>, <<248, 442>>, <<444, 447>>, <<452, 659>>,
     <<662, 687>>, <<880, 883>>, <<886, 887>>, <<891, 893>>, <<895, 895>>,
     <<902, 902>>, <<904, 906>>, <<908, 908>>, <<910, 929>>, <<931, 1013>>,
     <<1015, 1153>>, <<1162, 1327>>, <<1329, 1366>>, <<1376, 1416>>,
     <<4256, 4293>>, <<4295, 4295>>, <<4301, 4301>>, <<4304, 4346>>,
     <<4349, 4351>>, <<5024, 5109>>, <<5112, 5117>>, <<7296, 7304>>,
     <<7312, 7354>>, <<7357, 7359>>, <<7424, 7467>>, <<7531, 7543>>,
     <<7545, 7578>>, <<7680, 7957>>, <<7960, 7965>>, <<7968, 8005>>,
     <<8008, 8013>>, <<8016, 8023>>, <<8025, 8025>>, <<8027, 8027>>,
     <<8029, 8029>>, <<8031, 8061>>, <<8064, 8116>>, <<8118, 8124>>,
     <<8126, 8126>>, <<8130, 8132>>, <<8134, 8140>>, <<8144, 8147>>,
     <<8150, 8155>>, <<8160, 8172>>, <<8178, 8180>>, <<8182, 8188>>,
     <<8450, 8450>>, <<8455, 8455>>, <<8458, 8467>>, <<8469, 8469>>,
     <<8473, 8477>>, <<8484, 8484>>, <<8486, 8486>>, <<8488, 8488>>,
     <<8490, 8493>>, <<8495, 8500>>, <<8505, 8505>>, <<8508, 8511>>,
     <<8517, 8521>>, <<8526, 8526>>, <<8544, 8575>>, <<8579, 8580>>,
     <<9398, 9449>>, <<11264, 11387>>, <<11390, 11492>>, <<11499, 11502>>,
     <<11506, 11507>>, <<11520, 11557>>, <<11559, 11559>>, <<11565, 11565>>,
     <<42560, 42605>>, <<42624, 42651>>, <<42786, 42863>>, <<42865, 42887>>,
     <<42891, 42894>>, <<42896, 42954>>, <<42960, 42961>>, <<42963, 42963>>,
     <<42965, 42969>>, <<42997, 42998>>, <<43002, 43002>>, <<43824, 43866>>,
     <<43872, 43880>>, <<43888, 43967>>, <<64256, 64262>>, <<64275, 64279>>,
     <<65313, 65338>>, <<65345, 65370>>, <<66560, 66639>>, <<66736, 66771>>,
     <<66776, 66811>>, <<66928, 66938>>, <<66940, 66954>>, <<66956, 66962>>,
     <<66964, 66965>>, <<66967, 66977>>, <<66979, 66993>>, <<66995, 67001>>,
     <<67003, 67004>>, <<68736, 68786>>, <<68800, 68850>>, <<71840, 71903>>,
     <<93760, 93823>>, <<119808, 119892>>, <<119894, 119964>>,
     <<119966, 119967>>, <<119970, 119970>>, <<119973, 119974>>,
     <<119977, 119980>>, <<119982, 119993>>, <<119995, 119995>>,
     <<119997, 120003>>, <<120005, 120069>>, <<120071, 120074>>,
     <<120077, 120084>>, <<120086, 120092>>, <<120094, 120121>>,
     <<120123, 120126>>, <<120128, 120132>>, <<120134, 120134>>,
     <<120138, 120144>>, <<120146, 120485>>, <<120488, 120512>>,
     <<120514, 120538>>, <<120540, 120570>>, <<120572, 120596>>,
     <<120598, 120628>>, <<120630, 120654>>, <<120656, 120686>>,
     <<120688, 120712>>, <<120714, 120744>>, <<120746, 120770>>,
     <<120772, 120779>>, <<122624, 122633>>, <<122635, 122654>>,
     <<125184, 125251>>, <<127280, 127305>>, <<127312, 127337>>,
     <<127344, 127369>>,
     <<122661, 122666>>, <<7305, 7306>>, <<42955, 42959>>, <<42962, 42962>>,
     <<42964, 42964>>, <<42970, 42972>>, <<68944, 68965>>, <<68976, 68997>>,
     <<93856, 93880>>, <<93883, 93907>> >>
caseIgnorableRanges ==
  << <<39, 39>>, <<46, 46>>, <<58, 58>>, <<94, 94>>, <<96, 96>>, <<168, 168>>,
     <<173, 173>>, <<175, 175>>, <<180, 180>>, <<183, 184>>, <<688, 879>>,
     <<884, 885>>, <<890, 890>>, <<900, 901>>, <<903, 903>>, <<1155, 1161>>,
     <<1369, 1369>>, <<1375, 1375>>, <<1425, 1469>>, <<1471, 1471>>,
     <<1473, 1474>>, <<1476, 1477>>, <<1479, 1479>>, <<1524, 1524>>,
     <<1536, 1541>>, <<1552, 1562>>, <<1564, 1564>>, <<1600, 1600>>,
     <<1611, 1631>>, <<1648, 1648>>, <<1750, 1757>>, <<1759, 1768>>,
     <<1770, 1773>>, <<1807, 1807>>, <<1809, 1809>>, <<1840, 1866>>,
     <<1958, 1968>>, <<2027, 2037>>, <<2042, 2042>>, <<2045, 2045>>,
     <<2070, 2093>>, <<2137, 2139>>, <<2184, 2184>>, <<2192, 2193>>,
     <<2200, 2207>>, <<2249, 2306>>, <<2362, 2362>>, <<2364, 2364>>,
     <<2369, 2376>>, <<2381, 2381>>, <<2385, 2391>>, <<2402, 2403>>,
     <<2417, 2417>>, <<2433, 2433>>, <<2492, 2492>>, <<2497, 2500>>,
     <<2509, 2509>>, <<2530, 2531>>, <<2558, 2558>>, <<2561, 2562>>,
     <<2620, 2620>>, <<2625, 2626>>, <<2631, 2632>>, <<2635, 2637>>,
     <<2641, 2641>>, <<2672, 2673>>, <<2677, 2677>>, <<2689, 2690>>,
     <<2748, 2748>>, <<2753, 2757>>, <<2759, 2760>>, <<2765, 2765>>,
     <<2786, 2787>>, <<2810, 2815>>, <<2817, 2817>>, <<2876, 2876>>,
     <<2879, 2879>>, <<2881, 2884>>, <<2893, 2893>>, <<2901, 2902>>,
     <<2914, 2915>>, <<2946, 2946>>, <<3008, 3008>>, <<3021, 3021>>,
     <<3072, 3072>>, <<3076, 3076>>, <<3132, 3132>>, <<3134, 3136>>,
     <<3142, 3144>>, <<3146, 3149>>, <<3157, 3158>>, <<3170, 3171>>,
     <<3201, 3201>>, <<3260, 3260>>, <<3263, 3263>>, <<3270, 3270>>,
     <<3276, 3277>>, <<3298, 3299>>, <<3328, 3329>>, <<3387, 3388>>,
     <<3393, 3396>>, <<3405, 3405>>, <<3426, 3427>>, <<3457, 3457>>,
     <<3530, 3530>>, <<3538, 3540>>, <<3542, 3542>>, <<3633, 3633>>,
     <<3636, 3642>>, <<3654, 3662>>, <<3761, 3761>>, <<3764, 3772>>,
     <<3782, 3782>>, <<3784, 3789>>, <<3864, 3865>>, <<3893, 3893>>,
     <<3895, 3895>>, <<3897, 3897>>, <<3953, 3966>>, <<3968, 3972>>,
     <<3974, 3975>>, <<3981, 3991>>, <<3993, 4028>>, <<4038, 4038>>,
     <<4141, 4144>>, <<4146, 4151>>, <<4153, 4154>>, <<4157, 4158>>,
     <<4184, 4185>>, <<4190, 4192>>, <<4209, 4212>>, <<4226, 4226>>,
     <<4229, 4230>>, <<4237, 4237>>, <<4253, 4253>>, <<4348, 4348>>,
     <<4957, 4959>>, <<5906, 5908>>, <<5938, 5939>>, <<5970, 5971>>,
     <<6002, 6003>>, <<6068, 6069>>, <<6071, 6077>>, <<6086, 6086>>,
     <<6089, 6099>>, <<6103, 6103>>, <<6109, 6109>>, <<6155, 6159>>,
     <<6211, 6211>>, <<6277, 6278>>, <<6313, 6313>>, <<6432, 6434>>,
     <<6439, 6440>>, <<6450, 6450>>, <<6457, 6459>>, <<6679, 6680>>,
     <<6683, 6683>>, <<6742, 6742>>, <<6744, 6750>>, <<6752, 6752>>,
     <<6754, 6754>>, <<6757, 6764>>, <<6771, 6780>>, <<6783, 6783>>,
     <<6823, 6823>>, <<6832, 6862>>, <<6912, 6915>>, <<6964, 6964>>,
     <<6966, 6970>>, <<6972, 6972>>, <<6978, 6978>>, <<7019, 7027>>,
     <<7040, 7041>>, <<7074, 7077>>, <<7080, 7081>>, <<7083, 7085>>,
     <<7142, 7142>>, <<7144, 7145>>, <<7149, 7149>>, <<7151, 7153>>,
     <<7212, 7219>>, <<7222, 7223>>, <<7288, 7293>>, <<7376, 7378>>,
     <<7380, 7392>>, <<7394, 7400>>, <<7405, 7405>>, <<7412, 7412>>,
     <<7416, 7417>>, <<7468, 7530>>, <<7544, 7544>>, <<7579, 7679>>,
     <<8125, 8125>>, <<8127, 8129>>, <<8141, 8143>>, <<8157, 8159>>,
     <<8173, 8175>>, <<8189, 8190>>, <<8203, 8207>>, <<8216, 8217>>,
     <<8228, 8228>>, <<8231, 8231>>, <<8234, 8238>>, <<8288, 8292>>,
     <<8294, 8303>>, <<8305, 8305>>, <<8319, 8319>>, <<8336, 8348>>,
     <<8400, 8432>>, <<11388, 11389>>, <<11503, 11505>>, <<11631, 11631>>,
     <<11647, 11647>>, <<11744, 11775>>, <<11823, 11823>>, <<12293, 12293>>,
     <<12330, 12333>>, <<12337, 12341>>, <<12347, 12347>>, <<12441, 12446>>,
     <<12540, 12542>>, <<40981, 40981>>, <<42232, 42237>>, <<42508, 42508>>,
     <<42607, 42610>>, <<42612, 42621>>, <<42623, 42623>>, <<42652, 42655>>,
     <<42736, 42737>>, <<42752, 42785>>, <<42864, 42864>>, <<42888, 42890>>,
     <<42994, 42996>>, <<43000, 43001>>, <<43010, 43010>>, <<43014, 43014>>,
     <<43019, 43019>>, <<43045, 43046>>, <<43052, 43052>>, <<43204, 43205>>,
     <<43232, 43249>>, <<43263, 43263>>, <<43302, 43309>>, <<43335, 43345>>,
     <<43392, 43394>>, <<43443, 43443>>, <<43446, 43449>>, <<43452, 43453>>,
     <<43471, 43471>>, <<43493, 43494>>, <<43561, 43566>>, <<43569, 43570>>,
     <<43573, 43574>>, <<43587, 43587>>, <<43596, 43596>>, <<43632, 43632>>,
     <<43644, 43644>>, <<43696, 43696>>, <<43698, 43700>>, <<43703, 43704>>,
     <<43710, 43711>>, <<43713, 43713>>, <<43741, 43741>>, <<43756, 43757>>,
     <<43763, 43764>>, <<43766, 43766>>, <<43867, 43871>>, <<43881, 43883>>,
     <<44005, 44005>>, <<44008, 44008>>, <<44013, 44013>>, <<64286, 64286>>,
     <<64434, 64450>>, <<65024, 65039>>, <<65043, 65043>>, <<65056, 65071>>,
     <<65106, 65106>>, <<65109, 65109>>, <<65279, 65279>>, <<65287, 65287>>,
     <<65294, 65294>>, <<65306, 65306>>, <<65342, 65342>>, <<65344, 65344>>,
     <<65392, 65392>>, <<65438, 65439>>, <<65507, 65507>>, <<65529, 65531>>,
     <<66045, 66045>>, <<66272, 66272>>, <<66422, 66426>>, <<67456, 67461>>,
     <<67463, 67504>>, <<67506, 67514>>, <<68097, 68099>>, <<68101, 68102>>,
     <<68108, 68111>>, <<68152, 68154>>, <<68159, 68159>>, <<68325, 68326>>,
     <<68900, 68903>>, <<69291, 69292>>, <<69446, 69456>>, <<69506, 69509>>,
     <<69633, 69633>>, <<69688, 69702>>, <<69744, 69744>>, <<69747, 69748>>,
     <<69759, 69761>>, <<69811, 69814>>, <<69817, 69818>>, <<69821, 69821>>,
     <<69826, 69826>>, <<69837, 69837>>, <<69888, 69890>>, <<69927, 69931>>,
     <<69933, 69940>>, <<70003, 70003>>, <<70016, 70017>>, <<70070, 70078>>,
     <<70089, 70092>>, <<70095, 70095>>, <<70191, 70193>>, <<70196, 70196>>,
     <<70198, 70199>>, <<70206, 70206>>, <<70367, 70367>>, <<70371, 70378>>,
     <<70400, 70401>>, <<70459, 70460>>, <<70464, 70464>>, <<70502, 70508>>,
     <<70512, 70516>>, <<70712, 70719>>, <<70722, 70724>>, <<70726, 70726>>,
     <<70750, 70750>>, <<70835, 70840>>, <<70842, 70842>>, <<70847, 70848>>,
     <<70850, 70851>>, <<71090, 71093>>, <<71100, 71101>>, <<71103, 71104>>,
     <<71132, 71133>>, <<71219, 71226>>, <<71229, 71229>>, <<71231, 71232>>,
     <<71339, 71339>>, <<71341, 71341>>, <<71344, 71349>>, <<71351, 71351>>,
     <<71453, 71453>>, <<71455, 71455>>, <<71458, 71461>>, <<71463, 71467>>, <<71727, 71735>>,
     <<71737, 71738>>, <<71995, 71996>>, <<71998, 71998>>, <<72003, 72003>>,
     <<72148, 72151>>, <<72154, 72155>>, <<72160, 72160>>, <<72193, 72202>>,
     <<72243, 72248>>, <<72251, 72254>>, <<72263, 72263>>, <<72273, 72278>>,
     <<72281, 72283>>, <<72330, 72342>>, <<72344, 72345>>, <<72752, 72758>>,
     <<72760, 72765>>, <<72767, 72767>>, <<72850, 72871>>, <<72874, 72880>>,
     <<72882, 72883>>, <<72885, 72886>>, <<73009, 73014>>, <<73018, 73018>>,
     <<73020, 73021>>, <<73023, 73029>>, <<73031, 73031>>, <<73104, 73105>>,
     <<73109, 73109>>, <<73111, 73111>>, <<73459, 73460>>, <<78896, 78904>>,
     <<92912, 92916>>, <<92976, 92982>>, <<92992, 92995>>, <<94031, 94031>>,
     <<94095, 94111>>, <<94176, 94177>>, <<94179, 94180>>, <<110576, 110579>>,
     <<110581, 110587>>, <<110589, 110590>>, <<113821, 113822>>,
     <<113824, 113827>>, <<118528, 118573>>, <<118576, 118598>>,
     <<119143, 119145>>, <<119155, 119170>>, <<119173, 119179>>,
     <<119210, 119213>>, <<119362, 119364>>, <<121344, 121398>>,
     <<121403, 121452>>, <<121461, 121461>>, <<121476, 121476>>,
     <<121499, 121503>>, <<121505, 121519>>, <<122880, 122886>>,
     <<122888, 122904>>, <<122907, 122913>>, <<122915, 122916>>,
     <<122918, 122922>>, <<123184, 123197>>, <<123566, 123566>>,
     <<123628, 123631>>, <<125136, 125142>>, <<125252, 125259>>,
     <<127995, 127999>>, <<917505, 917505>>, <<917536, 917631>>,
     <<917760, 917999>>,
     <<3790, 3790>>, <<69373, 69375>>, <<70209, 70209>>, <<73472, 73473>>,
     <<73526, 73530>>, <<73536, 73536>>, <<73538, 73538>>, <<78905, 78912>>,
     <<78919, 78933>>, <<122928, 122989>>, <<123023, 123023>>,
     <<124139, 124143>>,
     <<2199, 2199>>, <<6863, 6877>>, <<6880, 6891>>, <<42993, 42993>>,
      <<68942, 68942>>, <<68969, 68973>>, <<68975, 68975>>, <<69317, 69317>>,
      <<69370, 69372>>, <<70587, 70592>>, <<70606, 70606>>, <<70608, 70608>>,
      <<70610, 70610>>, <<70625, 70626>>, <<72544, 72544>>, <<72546, 72548>>,
      <<72550, 72550>>, <<73177, 73177>>, <<73562, 73562>>, <<90398, 90409>>,
      <<90413, 90415>>, <<93504, 93506>>, <<93547, 93548>>, <<94194, 94195>>,
      <<124398, 124399>>, <<124643, 124643>>, <<124646, 124646>>,
      <<124654, 124655>>, <<124661, 124661>>, <<124671, 124671>> >>

\* a character that toLowerCase changes, with what it makes of it
Mappings ==
  UNION { { <<Char(c), <<Char(c + lowerCaseRanges[i][4])>> >> :
              c \in { x \in lowerCaseRanges[i][1]..lowerCaseRanges[i][2] :
                        (x - lowerCaseRanges[i][1]) % lowerCaseRanges[i][3] = 0 } } :
          i \in 1..Len(lowerCaseRanges) }
    \cup { <<Char(304), <<"i", Char(775)>> >> }

\* what toLowerCase makes of each character that it changes, whatever
\* stands around the character
LowerChars ==
  LET M == Mappings
  IN  [ch \in { p[1] : p \in M } |-> (CHOOSE p \in M : p[1] = ch)[2]]

\* the characters that toLowerCase changes
UpperChars == DOMAIN LowerChars

Cased         == Chars(casedRanges)
CaseIgnorable == Chars(caseIgnorableRanges)

\* the condition Final_Sigma for the i-th character of s: before it stands
\* a cased letter, after it none, the characters that are Case_Ignorable
\* passed over in both directions
FinalSigma(s, i) ==
  /\ \E j \in 1..(i - 1) :
       /\ s[j] \in Cased
       /\ \A k \in (j + 1)..(i - 1) : s[k] \in CaseIgnorable
  /\ ~\E j \in (i + 1)..Len(s) :
        /\ s[j] \in Cased
        /\ \A k \in (i + 1)..(j - 1) : s[k] \in CaseIgnorable

\* what toLowerCase makes of the i-th character of s: of the capital sigma
\* (U+03A3) the final sigma (U+03C2) or the small sigma (U+03C3)
LowerAt(s, i) ==
  IF s[i] = "U+03A3" THEN
    (IF FinalSigma(s, i) THEN <<"U+03C2">> ELSE <<"U+03C3">>)
  ELSE IF s[i] \in UpperChars THEN LowerChars[s[i]]
  ELSE <<s[i]>>

\* the first n characters of s in lower case
RECURSIVE LowerTo(_, _)
LowerTo(s, n) == IF n = 0 THEN << >> ELSE LowerTo(s, n - 1) \o LowerAt(s, n)

\* String.prototype.toLowerCase
toLowerCase(s) == LowerTo(s, Len(s))

\* the characters that trim strips, WhiteSpace and LineTerminator of the
\* language
WhiteSpace ==
  { " ", "\t", "\n", "\r", "\f", "U+000B", "U+00A0", "U+FEFF", "U+1680",
    "U+2000", "U+2001", "U+2002", "U+2003", "U+2004", "U+2005", "U+2006",
    "U+2007", "U+2008", "U+2009", "U+200A", "U+2028", "U+2029", "U+202F",
    "U+205F", "U+3000" }

\* String.prototype.trim
RECURSIVE trim(_)
trim(s) ==
  IF s = <<>> THEN s
  ELSE IF Head(s) \in WhiteSpace THEN trim(Tail(s))
  ELSE IF s[Len(s)] \in WhiteSpace THEN trim(SubSeq(s, 1, Len(s) - 1))
  ELSE s

\* String.prototype.includes
includes(s, key) ==
  \E i \in 0..(Len(s) - Len(key)) : SubSeq(s, i + 1, i + Len(key)) = key

\* the value null returned for a name that is not found
NoBiomarker ==
  [found |-> FALSE, standardName |-> <<>>, code |-> "undefined",
   standardUnit |-> "undefined", category |-> "undefined"]

\* { standardName, ...entry }
Standard(standardName, e) ==
  [found |-> TRUE, standardName |-> standardName, code |-> e.code,
   standardUnit |-> e.standardUnit, category |-> e.category]

\* the index of the first entry of the table, from i on, whose key satisfies
\* the test (0 if there is none); exact: the key is the name, otherwise: the
\* name contains the key
RECURSIVE FirstKey(_, _, _, _)
FirstKey(table, normalizedName, exact, i) ==
  IF i > Len(table) THEN 0
  ELSE IF (exact /\ table[i].key = normalizedName)
          \/ (~exact /\ includes(normalizedName, table[i].key)) THEN i
  ELSE FirstKey(table, normalizedName, exact, i + 1)

\* table[normalizedName], spread into the result: an own key gives its entry,
\* an inherited name gives an object without properties
DirectMatch(table, normalizedName, i) ==
  IF i > 0 THEN Standard(normalizedName, table[i])
  ELSE IF normalizedName \in ObjectPrototypeKeys
  THEN [found |-> TRUE, standardName |-> normalizedName, code |-> "undefined",
        standardUnit |-> "undefined", category |-> "undefined"]
  ELSE NoBiomarker

\* the loop over Object.entries(table): the first key, in the order of the
\* table, that the name contains
FuzzyMatch(table, normalizedName, i) ==
  IF i > 0 THEN Standard(table[i].key, table[i]) ELSE NoBiomarker

\* the two lookups of a trimmed lower-case name, the direct one first
Resolve(table, normalizedName, direct) ==
  IF direct.found THEN direct
  ELSE FuzzyMatch(table, normalizedName, FirstKey(table, normalizedName, FALSE, 1))

Lookup(table, normalizedName) ==
  Resolve(table, normalizedName,
          DirectMatch(table, normalizedName, FirstKey(table, normalizedName, TRUE, 1)))

standardizeBiomarker(name) ==
  IF name = <<>> THEN NoBiomarker
  ELSE Lookup(biomarkerStandardization, trim(toLowerCase(name)))

-----------------------------------------------------------------------------
(* normalizer.js: unitConversions, convertUnit                             *)

ConversionKeys ==
  { "g/dL_to_g/L", "g/L_to_g/dL", "mmol/L_to_g/dL", "g/dL_to_mmol/L",
    "mg/dL_to_mmol/L", "mmol/L_to_mg/dL", "mg/dL_to_µmol/L", "µmol/L_to_mg/dL",
    "mg/dL_to_mmol/L_chol", "mmol/L_to_mg/dL_chol",
    "mg/dL_to_mmol/L_trig", "mmol/L_to_mg/dL_trig", "F_to_C", "C_to_F" }

\* the decimal literal n/d of a conversion that multiplies by it or divides
\* by it
Factor(n, d, divides) == [n |-> n, d |-> d, divides |-> divides]

\* the conversions of the table other than those of temperatures
factors(key) ==
  CASE key = "g/dL_to_g/L"          -> Factor(10, 1, FALSE)
    [] key = "g/L_to_g/dL"          -> Factor(10, 1, TRUE)
    [] key = "mmol/L_to_g/dL"       -> Factor(1611, 1000, FALSE)
    [] key = "g/dL_to_mmol/L"       -> Factor(1611, 1000, TRUE)
    [] key = "mg/dL_to_mmol/L"      -> Factor(555, 10000, FALSE)
    [] key = "mmol/L_to_mg/dL"      -> Factor(180182, 10000, FALSE)
    [] key = "mg/dL_to_µmol/L"      -> Factor(884, 10, FALSE)
    [] key = "µmol/L_to_mg/dL"      -> Factor(884, 10, TRUE)
    [] key = "mg/dL_to_mmol/L_chol" -> Factor(259, 10000, FALSE)
    [] key = "mmol/L_to_mg/dL_chol" -> Factor(3867, 100, FALSE)
    [] key = "mg/dL_to_mmol/L_trig" -> Factor(113, 10000, FALSE)
    [] key = "mmol/L_to_mg/dL_trig" -> Factor(885, 10, FALSE)

\* value * factor or value / factor
ByFactor(value, factor, divides) ==
  IF divides THEN JsDiv(value, factor) ELSE JsMul(value, factor)

\* unitConversions[key](value), for a key of the table
unitConversions(key, value) ==
  IF key = "F_to_C" THEN
    JsDiv(JsMul(JsSub(value, Int2Num(32)), Int2Num(5)), Int2Num(9))
  ELSE IF key = "C_to_F" THEN
    JsAdd(JsDiv(JsMul(value, Int2Num(9)), Int2Num(5)), Int2Num(32))
  ELSE
    ByFactor(value, Num(factors(key).n, factors(key).d), factors(key).divides)

\* the key `${fromUnit}_to_${toUnit}`
ConversionKey(fromUnit, toUnit) == fromUnit \o "_to_" \o toUnit

\* what convertUnit returns, and whether it wrote its warning
Converted(value, warned) == [value |-> value, warned |-> warned]

\* mutant: the reverse conversion is applied as it stands instead of being
\* inverted
convertUnit_ReverseApplied(value, fromUnit, toUnit) ==
  IF fromUnit = toUnit THEN Converted(value, FALSE)
  ELSE IF ConversionKey(fromUnit, toUnit) \in ConversionKeys THEN
    Converted(unitConversions(ConversionKey(fromUnit, toUnit), value), FALSE)
  ELSE IF ConversionKey(toUnit, fromUnit) \in ConversionKeys THEN
    Converted(unitConversions(ConversionKey(toUnit, fromUnit), value), FALSE)
  ELSE Converted(value, TRUE)

convertUnit(value, fromUnit, toUnit) ==
  IF fromUnit = toUnit THEN Converted(value, FALSE)
  ELSE IF ConversionKey(fromUnit, toUnit) \in ConversionKeys THEN
    Converted(unitConversions(ConversionKey(fromUnit, toUnit), value), FALSE)
  ELSE IF ConversionKey(toUnit, fromUnit) \in ConversionKeys THEN
    Converted(JsDiv(Int2Num(1),
                    unitConversions(ConversionKey(toUnit, fromUnit),
                                    JsDiv(Int2Num(1), value))), FALSE)
  ELSE Converted(value, TRUE)

-----------------------------------------------------------------------------
(* normalizer.js: getDefaultReferenceRange, adjustReferenceRange,          *)
(* normalizeBiomarker                                                      *)

Range(min, max) == [min |-> min, max |-> max]

DefaultCodes ==
  { "718-7", "6690-2", "789-8", "777-3", "4544-3", "2345-7", "3094-0", "2160-0",
    "2951-2", "2823-3", "2093-3", "2571-8", "2085-9", "13457-7", "3016-3",
    "3053-6", "3026-2", "30123-3", "3024-7" }

\* a range from its bounds in tenths
InTenths(min, max) == Range(Num(min, 10), Num(max, 10))

\* the table of getDefaultReferenceRange: the bounds of a code, in tenths
defaultRanges(code) ==
  CASE code = "718-7"   -> <<120, 160>>
    [] code = "6690-2"  -> <<45, 110>>
    [] code = "789-8"   -> <<42, 58>>
    [] code = "777-3"   -> <<1500, 4500>>
    [] code = "4544-3"  -> <<360, 480>>
    [] code = "2345-7"  -> <<700, 990>>
    [] code = "3094-0"  -> <<70, 200>>
    [] code = "2160-0"  -> <<6, 12>>
    [] code = "2951-2"  -> <<1350, 1450>>
    [] code = "2823-3"  -> <<35, 50>>
    [] code = "2093-3"  -> <<0, 2000>>
    [] code = "2571-8"  -> <<0, 1500>>
    [] code = "2085-9"  -> <<400, 600>>
    [] code = "13457-7" -> <<0, 1000>>
    [] code = "3016-3"  -> <<4, 40>>
    [] code = "3053-6"  -> <<800, 2000>>
    [] code = "3026-2"  -> <<50, 120>>
    [] code = "30123-3" -> <<23, 42>>
    [] code = "3024-7"  -> <<8, 18>>

getDefaultReferenceRange(biomarkerCode) ==
  IF biomarkerCode \in DefaultCodes
  THEN InTenths(defaultRanges(biomarkerCode)[1], defaultRanges(biomarkerCode)[2])
  ELSE Range(Null, Null)

\* the ranges that adjustReferenceRange returns for a sex, in tenths
adjustedRanges(biomarkerCode, sex) ==
  IF biomarkerCode = "718-7" THEN
    (IF sex = "female" THEN <<120, 155>> ELSE <<135, 175>>)
  ELSE
    (IF sex = "female" THEN <<5, 11>> ELSE <<7, 13>>)

adjustReferenceRange(biomarkerCode, defaultRange, demographics) ==
  IF biomarkerCode \in {"718-7", "2160-0"} /\ demographics.sex \in {"female", "male"}
  THEN InTenths(adjustedRanges(biomarkerCode, demographics.sex)[1],
                adjustedRanges(biomarkerCode, demographics.sex)[2])
  ELSE defaultRange

\* a field the returned object does not have
NoName == <<"undefined">>

\* the object returned for a name that is not found
UnknownBiomarker(biomarkerData) ==
  [standardized |-> FALSE, message |-> "Unknown biomarker",
   code |-> "undefined", name |-> biomarkerData.name, originalName |-> NoName,
   value |-> biomarkerData.value, originalValue |-> Undefined,
   unit |-> biomarkerData.unit, originalUnit |-> "undefined",
   category |-> "undefined",
   referenceMin |-> biomarkerData.referenceMin,
   referenceMax |-> biomarkerData.referenceMax,
   status |-> "undefined", severity |-> "undefined",
   percentFromRange |-> Undefined, warned |-> FALSE]

\* the object returned for a name that is found; warned: convertUnit wrote
\* its warning
NormalizedBiomarker(biomarkerData, standardBiomarker, conv, refRange, abnormalStatus) ==
  [standardized |-> TRUE, message |-> "undefined",
   code |-> standardBiomarker.code, name |-> standardBiomarker.standardName,
   originalName |-> biomarkerData.name,
   value |-> conv.value, originalValue |-> biomarkerData.value,
   unit |-> standardBiomarker.standardUnit,
   originalUnit |-> biomarkerData.unit,
   category |-> standardBiomarker.category,
   referenceMin |-> refRange.min, referenceMax |-> refRange.max,
   status |-> abnormalStatus.status, severity |-> abnormalStatus.severity,
   percentFromRange |-> abnormalStatus.percentFromRange,
   warned |-> conv.warned]

\* the value in the standard unit
StandardValue(biomarkerData, standardBiomarker) ==
  IF biomarkerData.unit # standardBiomarker.standardUnit
  THEN convertUnit(biomarkerData.value, biomarkerData.unit,
                   standardBiomarker.standardUnit)
  ELSE Converted(biomarkerData.value, FALSE)

\* the range supplied, or the default one when a bound is missing
RefRange(biomarkerData, standardBiomarker, demographics) ==
  IF Falsy(biomarkerData.referenceMin) \/ Falsy(biomarkerData.referenceMax)
  THEN adjustReferenceRange(standardBiomarker.code,
                            getDefaultReferenceRange(standardBiomarker.code),
                            demographics)
  ELSE Range(biomarkerData.referenceMin, biomarkerData.referenceMax)

Classified(biomarkerData, standardBiomarker, conv, refRange) ==
  NormalizedBiomarker(biomarkerData, standardBiomarker, conv, refRange,
                      determineAbnormalStatus(conv.value, refRange.min, refRange.max))

Standardized(biomarkerData, demographics, standardBiomarker) ==
  IF ~standardBiomarker.found THEN UnknownBiomarker(biomarkerData)
  ELSE Classified(biomarkerData, standardBiomarker,
                  StandardValue(biomarkerData, standardBiomarker),
                  RefRange(biomarkerData, standardBiomarker, demographics))

normalizeBiomarker(biomarkerData, demographics) ==
  Standardized(biomarkerData, demographics, standardizeBiomarker(biomarkerData.name))

-----------------------------------------------------------------------------
(* parser.js: parseJsonReport with processJsonData, and the mapping of     *)
(* parseLabReport over the biomarkers; validation.js:                      *)
(* validateReferenceRanges                                                 *)
(*                                                                         *)
(* A value of the JSON data is a number, null, undefined (a property the   *)
(* object does not have) or a text; a date is an object of its own.        *)

\* a text: its characters
Str(chars) == [t |-> "str", chars |-> chars]

\* !!x
Truthy(x) == IF x.t = "str" THEN Len(x.chars) > 0 ELSE ~Falsy(x)

\* a || b
Or(a, b) == IF Truthy(a) THEN a ELSE b

DecimalDigits == <<"0", "1", "2", "3", "4", "5", "6", "7", "8", "9">>

DigitChars == { DecimalDigits[i] : i \in 1..10 }

DigitValue(ch) == (CHOOSE i \in 1..10 : DecimalDigits[i] = ch) - 1

\* the i-th character of c, or no character beyond its end
CharAt(c, i) == IF 1 <= i /\ i <= Len(c) THEN c[i] ELSE ""

\* how many characters of c from the i-th on are in S, up to the first that
\* is not
RECURSIVE Run(_, _, _)
Run(c, i, S) == IF CharAt(c, i) \in S THEN 1 + Run(c, i + 1, S) ELSE 0

\* the number written by the n digits of c from the i-th on
RECURSIVE Natural(_, _, _)
Natural(c, i, n) ==
  IF n = 0 THEN << >>
  ELSE BAdd(BMulSmall(Natural(c, i, n - 1), 10), BFromInt(DigitValue(c[i + n - 1])))

\* the same for the digits of an exponent, as an integer: a million stands
\* for it and for every greater number
Capped(k) == IF k > 1000000 THEN 1000000 ELSE k

RECURSIVE Exponent(_, _, _)
Exponent(c, i, n) ==
  IF n = 0 THEN 0 ELSE Capped(10 * Exponent(c, i, n - 1) + DigitValue(c[i + n - 1]))

\* 10^k
RECURSIVE Pow10(_)
Pow10(k) ==
  IF k < 4 THEN BFromInt(10^k)
  ELSE IF k % 2 = 1 THEN BMulSmall(Pow10(k - 1), 10)
  ELSE BMul(Pow10(k \div 2), Pow10(k \div 2))

\* the double nearest to s * N / D for N, D > 0, from N * 2^k \div D
RatioBy(s, N, D, k) == Quotient(s, BDivMod(Shl(N, k), D), -k)

\* with a k that gives the quotient 55 digits or more
Ratio(s, N, D) ==
  RatioBy(s, N, D, IF BitLen(D) + 55 > BitLen(N) THEN BitLen(D) + 55 - BitLen(N) ELSE 0)

\* the double nearest to M * 10^k: 10^k is 2^(3k) or more for k >= 0 and
\* below 2^(3k) for k < 0, so M * 10^k is beyond the doubles, or below half
\* the least of them, where the second and the third line say so
Scaled(M, k) ==
  IF M = << >> THEN DZero
  ELSE IF 3 * k >= 1024 THEN PosInf
  ELSE IF 3 * k + BitLen(M) < -1075 THEN DZero
  ELSE IF k >= 0 THEN RoundDouble(1, BMul(M, Pow10(k)), 0, FALSE)
  ELSE Ratio(1, M, Pow10(-k))

\* the exponent part at the q-th character: e or E, a sign or none, digits
\* from the p-th on; without digits there is no exponent part
ExponentAt(c, q, p) ==
  IF CharAt(c, q) \in {"e", "E"} /\ Run(c, p, DigitChars) > 0
  THEN (IF CharAt(c, q + 1) = "-" THEN -1 ELSE 1) * Exponent(c, p, Run(c, p, DigitChars))
  ELSE 0

\* nInt digits at the i-th character, a point and nFrac digits, of which
\* one of the two runs of digits may be empty, and an exponent part at the
\* q-th
DecimalAt(c, i, nInt, nFrac, q) ==
  IF nInt + nFrac = 0 THEN NaN
  ELSE Scaled(BAdd(BMul(Natural(c, i, nInt), Pow10(nFrac)),
                   Natural(c, i + nInt + 1, nFrac)),
              ExponentAt(c, q, IF CharAt(c, q + 1) \in {"+", "-"} THEN q + 2 ELSE q + 1)
                - nFrac)

\* the digits after the point that follows nInt digits, none without point
FractionAt(c, i, nInt) ==
  IF CharAt(c, i + nInt) = "." THEN Run(c, i + nInt + 1, DigitChars) ELSE 0

\* the unsigned literal at the i-th character
UnsignedAt(c, i) ==
  IF i + 7 <= Len(c) /\ SubSeq(c, i, i + 7) = <<"I", "n", "f", "i", "n", "i", "t", "y">>
  THEN PosInf
  ELSE DecimalAt(c, i, Run(c, i, DigitChars),
                 FractionAt(c, i, Run(c, i, DigitChars)),
                 i + Run(c, i, DigitChars)
                   + (IF CharAt(c, i + Run(c, i, DigitChars)) = "." THEN 1 ELSE 0)
                   + FractionAt(c, i, Run(c, i, DigitChars)))

Signed(negative, a) == IF negative THEN FNeg(a) ELSE a

SignedAt(c, i) ==
  Signed(CharAt(c, i) = "-",
         UnsignedAt(c, IF CharAt(c, i) \in {"+", "-"} THEN i + 1 ELSE i))

\* parseFloat(x): the number of the longest decimal literal that the text of
\* x begins with after its white space, NaN if it begins with none.  The
\* text of a number gives the number back, that of -0 is "0"; the texts of
\* null and undefined begin with no literal.
parseFloat(x) ==
  CASE x.t = "str"                    -> SignedAt(x.chars, 1 + Run(x.chars, 1, WhiteSpace))
    [] x.t \in {"null", "undefined"}  -> NaN
    [] x.t = "dbl" /\ x.m = << >>     -> DZero
    [] OTHER                          -> x

\* the three numbers of an item: the first of its properties that is truthy
\* for the value and for each bound, parsed
Parsed3(item) ==
  [f \in {"value", "min", "max"} |->
     parseFloat(IF f = "value" THEN Or(Or(item.value, item.result), DZero)
                ELSE IF f = "min"
                THEN Or(Or(Or(item.referenceMin, item.refLow), item.rangeMin), DZero)
                ELSE Or(Or(Or(item.referenceMax, item.refHigh), item.rangeMax), DZero))]

\* the object made of an item with a name
Object(name, item, parsed) ==
  [name |-> name,
   value |-> Or(parsed["value"], DZero),
   unit |-> Or(Or(item.unit, item.units), Str("")).chars,
   referenceMin |-> Or(parsed["min"], Null),
   referenceMax |-> Or(parsed["max"], Null)]

\* item.name || item.test || item.testName || ''
ItemName(item) == Or(Or(Or(item.name, item.test), item.testName), Str(<<>>)).chars

\* the filters
HasValue(b) == b.value.t # "nan"
HasValueAndName(b) == HasValue(b) /\ Len(b.name) > 0

\* new Date()
Now == [t |-> "date", chars |-> "now"]

\* new Date(x) for a date or the text of one
Date(x) == IF x.t = "date" THEN x ELSE [t |-> "date", chars |-> x.chars]

Structured(biomarkers, collectionDate, reportType, error) ==
  [biomarkers |-> biomarkers, collectionDate |-> collectionDate,
   reportType |-> reportType, error |-> error]

\* the items of an array, each under the name it gives itself
Entries(items) ==
  [i \in 1..Len(items) |-> [key |-> ItemName(items[i]), value |-> items[i]]]

\* the items that are mapped: those of the array, those of results, or the
\* properties of the object that are objects
Mapped(jsonData) ==
  IF jsonData.isArray THEN Entries(jsonData.items)
  ELSE IF jsonData.hasResults THEN Entries(jsonData.results)
  ELSE jsonData.entries

\* the objects made of them
Biomarkers(entries) ==
  [i \in 1..Len(entries) |->
     Object(entries[i].key, entries[i].value, Parsed3(entries[i].value))]

\* processJsonData(jsonData, options), from the biomarkers mapped.  jsonData
\* is an array of items (isArray, items), or an object: with an array
\* results of items (hasResults, results), the properties collectionDate,
\* date, reportType and panel, and its properties that are objects in their
\* order (entries, each a key and an item)
Processed(jsonData, options, biomarkers) ==
  IF jsonData.isArray THEN
    Structured(SelectSeq(biomarkers, HasValueAndName),
               Or(options.collectionDate, Now),
               Or(options.reportType, Str("Unknown")),
               Undefined)
  ELSE IF jsonData.hasResults THEN
    Structured(SelectSeq(biomarkers, HasValueAndName),
               Date(Or(Or(Or(jsonData.collectionDate, jsonData.date),
                          options.collectionDate), Now)),
               Or(Or(Or(jsonData.reportType, jsonData.panel), options.reportType),
                  Str("Unknown")),
               Undefined)
  ELSE IF Len(biomarkers) > 0 THEN
    Structured(SelectSeq(biomarkers, HasValue),
               Or(options.collectionDate, Now),
               Or(options.reportType, Str("Unknown")),
               Undefined)
  ELSE
    Structured(<< >>, Now, Str("Unknown"), Str("Unrecognized JSON format"))

processJsonData(jsonData, options) ==
  Processed(jsonData, options, Biomarkers(Mapped(jsonData)))

\* parsedData.biomarkers.map(biomarker => normalizeBiomarker(biomarker,
\* options.demographics))
NormalizeWith(parsed, demographics) ==
  [i \in 1..Len(parsed) |-> normalizeBiomarker(parsed[i], demographics)]

\* the same with the default demographics {}
NormalizeAll(parsed) == NormalizeWith(parsed, [sex |-> "undefined"])

\* parseLabReport(buffer, 'application/json', options) for the buffer of
\* jsonData
Normalized(parsedData, options) ==
  [parsedData EXCEPT !.biomarkers = NormalizeWith(@, options.demographics)]

parseLabReport(jsonData, options) ==
  Normalized(processJsonData(jsonData, options), options)

\* the response to a body with both bounds, parsed: 400 with a message, or
\* next()
Validated(min, max) ==
  IF min.t = "nan" \/ max.t = "nan" THEN
    [status |-> 400, message |-> "Reference ranges must be numbers"]
  ELSE IF JsGt(min, max) THEN
    [status |-> 400,
     message |-> "Reference minimum cannot be greater than reference maximum"]
  ELSE [status |-> 0, message |-> "next"]

\* the response of the middleware
validateReferenceRanges(body) ==
  IF body.referenceMin.t # "undefined" /\ body.referenceMax.t # "undefined"
  THEN Validated(parseFloat(body.referenceMin), parseFloat(body.referenceMax))
  ELSE [status |-> 0, message |-> "next"]

-----------------------------------------------------------------------------
(* Input sets                                                              *)

MaxValue == 10
MaxBound == 6
MaxConvert == 3

\* 2^k, from the least double above 0 (2^-1074) to 2^1023
Power2(k) == Normal(1, <<1>>, k)

\* numbers at the ends of the range of the doubles: 2^1023 (8.98...e307),
\* 2^-1030, 2^-1063, the least double above 0 (5e-324); the decimal
\* fractions 0.00001 and 0.00002; 0.9999999999999999, the greatest double
\* below 1
Extremes ==
  [huge    |-> Power2(1023),
   tiny    |-> Power2(-1030),
   tinier  |-> Power2(-1063),
   least   |-> Power2(-1074),
   small   |-> Num(1, 100000),
   twice   |-> Num(2, 100000),
   nearOne |-> FSub(Int2Num(1), Power2(-53))]

\* a reference bound as a caller may pass it: a number, null, or left out
Bounds == {Int2Num(i) : i \in 0..MaxBound} \cup {Null, Undefined}

\* the worked examples of the classifier, calls with decimal fractions,
\* which are not the doubles their digits say, and calls whose quotients
\* leave the range of the finite doubles or divide by -0:
\* <<value, min, max>>
ExampleCalls ==
  { <<Int2Num(95), Int2Num(70), Int2Num(99)>>,
    <<Int2Num(240), Int2Num(125), Int2Num(200)>>,
    <<Int2Num(11), Num(135, 10), Num(175, 10)>>,
    <<Num(73, 10), Int2Num(7), Int2Num(10)>>,
    <<Num(3, 10), Num(1, 10), Num(21, 10)>>,
    <<Num(37, 10), Num(1, 10), Num(41, 10)>>,
    <<Num(9, 10), Num(1, 10), Num(6, 10)>>,
    <<Num(19, 10), Num(1, 10), Num(8, 10)>>,
    <<Num(21, 10), Num(24, 10), Num(25, 10)>>,
    <<Int2Num(5), Int2Num(10), Int2Num(12)>>,
    <<Extremes.nearOne, Int2Num(2), Int2Num(3)>>,
    <<Int2Num(-1), Zero(-1), Int2Num(10)>>,
    <<Extremes.huge, Extremes.small, Extremes.twice>>,
    <<Extremes.huge, FNeg(Extremes.huge), Extremes.huge>>,
    <<Int2Num(5), Extremes.tinier, Extremes.tiny>> }

\* the values are the halves up to MaxValue / 2
ClassifyCalls ==
  { <<Num(v, 2), lo, hi>> : v \in 0..MaxValue, lo \in Bounds, hi \in Bounds }
    \cup ExampleCalls

ClassifyArgs ==
  { [value |-> c[1], min |-> c[2], max |-> c[3]] : c \in ClassifyCalls }

\* names as labs write them: canonical names, synonyms, other letter case,
\* surrounding blanks and other white space, longer names that contain a
\* key, names without a key
Names ==
  {
    <<"H", "e", "m", "o", "g", "l", "o", "b", "i", "n">>,
    <<"h", "g", "b">>,
    <<" ", "H", "b", " ">>,
    <<"H", "G", "B">>,
    <<"H", "e", "m", "a", "t", "o", "c", "r", "i", "t">>,
    <<"M", "C", "V">>,
    <<"m", "c", "h", "c", "\r">>,
    <<"U+00A0", "M", "C", "H", "\f", "U+2028">>,
    <<"m", "c", "h", "U+00A0", "c">>,
    <<"G", "l", "u", "c", "o", "s", "e">>,
    <<"F", "a", "s", "t", "i", "n", "g", " ", "G", "l", "u", "c", "o", "s", "e">>,
    <<"U", "r", "i", "n", "e", " ", "G", "l", "u", "c", "o", "s", "e">>,
    <<"u", "r", "i", "n", "e", " ", "g", "l", "u", "c", "o", "s", "e", " ", "l", "e", "v", "e", "l">>,
    <<"L", "D", "L", " ", "C", "h", "o", "l", "e", "s", "t", "e", "r", "o", "l">>,
    <<"v", "l", "d", "l">>,
    <<"H", "D", "L">>,
    <<"T", "r", "i", "g", "l", "y", "c", "e", "r", "i", "d", "e", "s">>,
    <<"A", "l", "k", "a", "l", "i", "n", "e", " ", "P", "h", "o", "s", "p", "h", "a", "t", "a", "s", "e">>,
    <<"V", "i", "t", "a", "m", "i", "n", " ", "D">>,
    <<"N", "e", "w", " ", "T", "e", "s", "t">>,
    <<>>,
    <<"c", "o", "n", "s", "t", "r", "u", "c", "t", "o", "r">>,
    <<"C", "r", "e", "a", "t", "i", "n", "i", "n", "e">>,
    <<"T", "S", "H">>,
    <<"F", "r", "e", "e", " ", "T", "4">>,
    <<"F", "r", "e", "e", " ", "T", "4", " ", "(", "D", "i", "r", "e", "c", "t", ")">>,
    <<"S", "o", "d", "i", "u", "m">>,
    <<"N", "a">>,
    <<"B", "U", "N">>,
    <<"e", "G", "F", "R">>,
    <<" ", " ">>,
    <<"\t", "\n", "\r">>,
    <<"U+212A">>,
    <<"H", "U+00C4", "M", "O", "G", "L", "O", "B", "I", "N">>,
    <<"U+0130", "R", "O", "N">>,
    <<"A", "U+03A3", " ", "T", "S", "H">>,
    <<"U+A7DC", "D", "L">>
  }

\* units a lab may report in, among them two no conversion knows ("mg/dl",
\* and "umol/L" spelled with the letter u for the micro sign) and the
\* type-qualified unit of the cholesterol conversions
Units ==
  { "g/dL", "g/L", "mmol/L", "mg/dL", "µmol/L", "umol/L", "F", "C", "%", "mg/dl",
    "mmol/L_chol" }

\* whole numbers and fractions, one of them negative, -0, and numbers whose
\* conversion or whose reciprocal leaves the range of the finite doubles
ConvertValues ==
  { Int2Num(v) : v \in 0..MaxConvert }
    \cup { Num(1, 3), Num(7, 10), Num(-7, 4), Zero(-1),
           Extremes.huge, Extremes.tinier, Extremes.least }

ConvertArgs ==
  { [value |-> v, fromUnit |-> f, toUnit |-> t] :
      v \in ConvertValues, f \in Units, t \in Units }

\* the names of the measurements that are normalized
MeasuredNames ==
  {
    <<"H", "e", "m", "o", "g", "l", "o", "b", "i", "n">>,
    <<" ", "H", "b", " ">>,
    <<"G", "l", "u", "c", "o", "s", "e">>,
    <<"M", "C", "V">>,
    <<"N", "e", "w", " ", "T", "e", "s", "t">>,
    <<"c", "o", "n", "s", "t", "r", "u", "c", "t", "o", "r">>,
    <<"C", "r", "e", "a", "t", "i", "n", "i", "n", "e">>,
    <<"B", "U", "N">>,
    <<>>
  }

\* those of them whose default range depends on the sex
SexedNames ==
  { <<"H", "e", "m", "o", "g", "l", "o", "b", "i", "n">>,
    <<"C", "r", "e", "a", "t", "i", "n", "i", "n", "e">> }

MeasuredValues == { Int2Num(v) : v \in {0, 5, 14, 100, 240} } \cup { Num(73, 10) }

MeasuredUnits == { "g/dL", "g/L", "mg/dL", "mmol/L", "mg/dl" }

\* units with the micro sign, and their spellings with the letter u, which
\* are units of their own
MicroUnits == { "µmol/L", "umol/L", "10^3/µL", "10^3/uL" }

\* <<referenceMin, referenceMax>> as supplied with a measurement
SuppliedRanges ==
  { <<Undefined, Undefined>>, <<Null, Null>>, <<Int2Num(12), Undefined>>,
    <<Int2Num(0), Int2Num(200)>>, <<Int2Num(5), Int2Num(13)>>,
    <<Int2Num(13), Int2Num(5)>>, <<Int2Num(70), Int2Num(99)>> }

\* a measurement far above a narrow range, and measurements in units with
\* the micro sign
RawMeasurements ==
  { [name |-> nm, value |-> v, unit |-> u, referenceMin |-> r[1], referenceMax |-> r[2]] :
      nm \in MeasuredNames, v \in MeasuredValues, u \in MeasuredUnits, r \in SuppliedRanges }
    \cup { [name |-> <<"H", "e", "m", "o", "g", "l", "o", "b", "i", "n">>,
             value |-> Extremes.huge, unit |-> "g/dL",
             referenceMin |-> Extremes.small, referenceMax |-> Extremes.twice] }
    \cup { [name |-> nm, value |-> Int2Num(100), unit |-> u,
             referenceMin |-> Undefined, referenceMax |-> Undefined] :
             nm \in { <<"C", "r", "e", "a", "t", "i", "n", "i", "n", "e">>, <<"W", "B", "C">> },
             u \in MicroUnits }

\* every measurement with the default demographics {}, and those whose
\* default range depends on the sex with either sex
NormalizeArgs ==
  { [biomarkerData |-> b, demographics |-> [sex |-> "undefined"]] : b \in RawMeasurements }
    \cup { [biomarkerData |-> b, demographics |-> [sex |-> sx]] :
             b \in { m \in RawMeasurements : m.name \in SexedNames },
             sx \in { "female", "male" } }

\* an item without properties
NoItem ==
  [name |-> Undefined, test |-> Undefined, testName |-> Undefined,
   value |-> Undefined, result |-> Undefined,
   unit |-> Undefined, units |-> Undefined,
   referenceMin |-> Undefined, refLow |-> Undefined, rangeMin |-> Undefined,
   referenceMax |-> Undefined, refHigh |-> Undefined, rangeMax |-> Undefined]

\* the properties of an item that name it, in the spellings the parser
\* knows; an empty name and no name at all
ItemNames ==
  { [NoItem EXCEPT !.name = Str(<<"H", "e", "m", "o", "g", "l", "o", "b", "i", "n">>)],
    [NoItem EXCEPT !.name = Str(<< >>), !.test = Str(<<"H", "b">>)],
    [NoItem EXCEPT !.testName = Str(<<"G", "l", "u", "c", "o", "s", "e">>)],
    NoItem }

\* its value: a number, a text of digits, a text without, 0 beside a result
ItemValues ==
  { [NoItem EXCEPT !.value = Int2Num(14)],
    [NoItem EXCEPT !.result = Str(<<"1", "4", ".", "5">>)],
    [NoItem EXCEPT !.value = Str(<<"a", "b", "c">>)],
    [NoItem EXCEPT !.value = Int2Num(0), !.result = Int2Num(11)],
    NoItem }

ItemUnits ==
  { [NoItem EXCEPT !.unit = Str("g/dL")],
    [NoItem EXCEPT !.units = Str("mg/dL")],
    NoItem }

ItemRanges ==
  { [NoItem EXCEPT !.referenceMin = Int2Num(12), !.referenceMax = Int2Num(16)],
    [NoItem EXCEPT !.refLow = Int2Num(12), !.refHigh = Int2Num(16)],
    [NoItem EXCEPT !.rangeMin = Str(<<"1", "2">>), !.rangeMax = Str(<<" ", "1", "6", "e", "0", "x">>)],
    [NoItem EXCEPT !.referenceMin = Int2Num(0), !.referenceMax = Int2Num(200)],
    [NoItem EXCEPT !.referenceMin = Int2Num(13), !.referenceMax = Int2Num(5)],
    NoItem }

Items ==
  { [name |-> n.name, test |-> n.test, testName |-> n.testName,
     value |-> v.value, result |-> v.result,
     unit |-> u.unit, units |-> u.units,
     referenceMin |-> r.referenceMin, refLow |-> r.refLow, rangeMin |-> r.rangeMin,
     referenceMax |-> r.referenceMax, refHigh |-> r.refHigh, rangeMax |-> r.rangeMax] :
      n \in ItemNames, v \in ItemValues, u \in ItemUnits, r \in ItemRanges }

\* JSON data of the three formats and data of none
ArrayOf(items) ==
  [isArray |-> TRUE, items |-> items, hasResults |-> FALSE, results |-> << >>,
   collectionDate |-> Undefined, date |-> Undefined,
   reportType |-> Undefined, panel |-> Undefined, entries |-> << >>]

ObjectOf(hasResults, results, collectionDate, date, reportType, panel, entries) ==
  [isArray |-> FALSE, items |-> << >>, hasResults |-> hasResults, results |-> results,
   collectionDate |-> collectionDate, date |-> date,
   reportType |-> reportType, panel |-> panel, entries |-> entries]

Hemogram ==
  [NoItem EXCEPT !.name = Str(<<"H", "b">>), !.result = Int2Num(14),
                 !.unit = Str("g/dL"), !.refLow = Int2Num(12), !.refHigh = Int2Num(16)]

Sugar ==
  [NoItem EXCEPT !.value = Str(<<"5", ".", "5">>), !.units = Str("mmol/L")]

JsonData ==
  { ArrayOf(<<it>>) : it \in Items }
    \cup { ArrayOf(<< >>), ArrayOf(<<Hemogram, NoItem, Hemogram>>) }
    \cup { ObjectOf(TRUE, <<it>>, d[1], d[2], d[3], d[4], << >>) :
             it \in { Hemogram, NoItem },
             d \in { <<Undefined, Undefined, Undefined, Undefined>>,
                     <<Str("2024-01-15"), Str("2024-02-01"), Str("CBC"), Str("Panel")>>,
                     <<Undefined, Str("2024-02-01"), Undefined, Str("Panel")>> } }
    \cup { ObjectOf(FALSE, << >>, Str("2024-01-15"), Undefined, Undefined, Undefined, e) :
             e \in { << >>,
                     << [key |-> <<"G", "l", "u", "c", "o", "s", "e">>, value |-> Sugar] >>,
                     << [key |-> <<"H", "b">>, value |-> Hemogram],
                        [key |-> <<"m", "e", "t", "a">>, value |-> NoItem] >> } }

NoOptions ==
  [collectionDate |-> Undefined, reportType |-> Undefined,
   demographics |-> [sex |-> "undefined"]]

SomeOptions ==
  [collectionDate |-> Str("2024-03-01"), reportType |-> Str("Lab"),
   demographics |-> [sex |-> "female"]]

\* every report with the default options {}, and the reports other than the
\* arrays of one item also with options set
ParseArgs ==
  { [jsonData |-> j, options |-> NoOptions] : j \in JsonData }
    \cup { [jsonData |-> j, options |-> SomeOptions] :
             j \in { d \in JsonData : ~d.isArray \/ Len(d.items) # 1 } }

\* a bound in the body of a request: a bound of a caller or a text
BodyBounds == Bounds \cup { Str(<<"1", "2">>), Str(<<"a", "b", "c">>) }

ValidateArgs ==
  { [referenceMin |-> lo, referenceMax |-> hi] : lo \in BodyBounds, hi \in BodyBounds }

-----------------------------------------------------------------------------
(* State machine                                                           *)

NoReturn == [none |-> TRUE]

\* a caller is about to call one exported function with some arguments
Init ==
  /\ pc = "call"
  /\ ret = NoReturn
  /\ warnings = 0
  /\ \/ op = "classify" /\ args \in ClassifyArgs
     \/ op = "standardize" /\ args \in Names
     \/ op = "convert" /\ args \in ConvertArgs
     \/ op = "normalize" /\ args \in NormalizeArgs
     \/ op = "parse" /\ args \in ParseArgs
     \/ op = "validate" /\ args \in ValidateArgs

\* determineAbnormalStatus(value, minRange, maxRange)
Classify ==
  /\ pc = "call"
  /\ op = "classify"
  /\ ret' = determineAbnormalStatus(args.value, args.min, args.max)
  /\ pc' = "returned"
  /\ UNCHANGED <<op, args, warnings>>

\* standardizeBiomarker(name)
Standardize ==
  /\ pc = "call"
  /\ op = "standardize"
  /\ ret' = standardizeBiomarker(args)
  /\ pc' = "returned"
  /\ UNCHANGED <<op, args, warnings>>

\* convertUnit(value, fromUnit, toUnit)
\* the value returned, and the warning counted if one was written
Returns(r) ==
  /\ ret' = r.value
  /\ warnings' = IF r.warned THEN 1 ELSE 0

ConvertUnit ==
  /\ pc = "call"
  /\ op = "convert"
  /\ Returns(convertUnit(args.value, args.fromUnit, args.toUnit))
  /\ pc' = "returned"
  /\ UNCHANGED <<op, args>>

\* normalizeBiomarker(biomarkerData, demographics)
Normalize ==
  /\ pc = "call"
  /\ op = "normalize"
  /\ ret' = normalizeBiomarker(args.biomarkerData, args.demographics)
  /\ warnings' = IF ret'.warned THEN 1 ELSE 0
  /\ pc' = "returned"
  /\ UNCHANGED <<op, args>>

\* parseLabReport(buffer, 'application/json', options)
ParseLabReport ==
  /\ pc = "call"
  /\ op = "parse"
  /\ ret' = parseLabReport(args.jsonData, args.options)
  /\ warnings' = Cardinality({i \in 1..Len(ret'.biomarkers) : ret'.biomarkers[i].warned})
  /\ pc' = "returned"
  /\ UNCHANGED <<op, args>>

\* validateReferenceRanges(req, res, next)
ValidateReferenceRanges ==
  /\ pc = "call"
  /\ op = "validate"
  /\ ret' = validateReferenceRanges(args)
  /\ pc' = "returned"
  /\ UNCHANGED <<op, args, warnings>>

Next ==
  \/ Classify
  \/ Standardize
  \/ ConvertUnit
  \/ Normalize
  \/ ParseLabReport
  \/ ValidateReferenceRanges

Spec == Init /\ [][Next]_vars

-----------------------------------------------------------------------------
(* Properties                                                              *)

ClassifyReturned  == pc = "returned" /\ op = "classify"
NormalizeReturned == pc = "returned" /\ op = "normalize"

\* a finite number
IsNum(x)  == x.t = "dbl"
Absent(x) == x.t \in {"null", "undefined"}

\* a whole number
IsInteger(p) ==
  IsNum(p) /\ (IsZero(p) \/ p.e >= 0 \/ Shl(Shr(p.m, -p.e), -p.e) = p.m)

\* p is round(x): x itself if x is not finite, and otherwise the whole
\* number with p - 0.5 <= x < p + 0.5
IsRounded(p, x) ==
  IF ~IsNum(x) THEN p = x
  ELSE /\ IsInteger(p)
       /\ FGe(x, FSub(p, Decimal(1, 2)))
       /\ FGt(FAdd(p, Decimal(1, 2)), x)

\* (1 - value/min) * 100 and (value/max - 1) * 100, in the numbers of the
\* language
PercentBelow(v, lo) == FMul(FSub(FromInt(1), FDiv(v, lo)), FromInt(100))
PercentAbove(v, hi) == FMul(FSub(FDiv(v, hi), FromInt(1)), FromInt(100))

\* no key of the table equals the trimmed lower-case name or occurs in it
NoKeyMatches(name) ==
  \A i \in 1..Len(biomarkerStandardization) :
    ~includes(trim(toLowerCase(name)), biomarkerStandardization[i].key)

\* C1: a classification without a resolvable reference range (classify with
\* min or max absent; normalize with no range supplied and no default range
\* for the code) is exactly {status: unknown, severity: none,
\* percentFromRange: 0}, for every value.
C1_NoRangeIsUnknown ==
  /\ (ClassifyReturned /\ (Absent(args.min) \/ Absent(args.max)))
       => ret = Result("unknown", "none", Int2Num(0))
  /\ (/\ NormalizeReturned
      /\ ret.standardized
      /\ Absent(args.biomarkerData.referenceMin)
      /\ Absent(args.biomarkerData.referenceMax)
      /\ ret.code \notin DefaultCodes)
       => /\ ret.status = "unknown"
          /\ ret.severity = "none"
          /\ ret.percentFromRange = Int2Num(0)

\* C2: for a measurement whose name matches no key of the table, exactly or
\* as a substring, normalize returns a record with status unknown, with the
\* original name, value and unit, and without a canonical code.
C2_UnknownNameStatusUnknown ==
  (NormalizeReturned /\ NoKeyMatches(args.biomarkerData.name))
    => /\ ret.status = "unknown"
       /\ ret.name = args.biomarkerData.name
       /\ ret.value = args.biomarkerData.value
       /\ ret.unit = args.biomarkerData.unit
       /\ ret.code = "undefined"

\* a range of numbers with 0 < min <= max
ProperRange ==
  /\ IsNum(args.min) /\ IsNum(args.max)
  /\ FGt(args.min, DZero)
  /\ FGe(args.max, args.min)

\* C3: for every value and every range with 0 < min <= max, the status is
\* below_range iff value < min and above_range iff value > max; there the
\* severity is high iff (min - value)/min > 0.5, respectively
\* (value - max)/max > 0.5, and low otherwise.  The quotients are those of
\* the language's numbers.
C3_OutOfRangeStatus ==
  (ClassifyReturned /\ ProperRange) =>
    LET v  == args.value
        lo == args.min
        hi == args.max
    IN  /\ (ret.status = "below_range") <=> FGt(lo, v)
        /\ (ret.status = "above_range") <=> FGt(v, hi)
        /\ FGt(lo, v) =>
             ret.severity = IF FGt(FDiv(FSub(lo, v), lo), Decimal(1, 2))
                            THEN "high" ELSE "low"
        /\ FGt(v, hi) =>
             ret.severity = IF FGt(FDiv(FSub(v, hi), hi), Decimal(1, 2))
                            THEN "high" ELSE "low"

\* C3 witness: a value more than half of max above a proper range was
\* classified above_range with severity high
C3_Witness ==
  /\ ClassifyReturned /\ ProperRange
  /\ FGt(FSub(args.value, args.max), FMul(Decimal(1, 2), args.max))
  /\ ret.status = "above_range"
  /\ ret.severity = "high"

\* C4 as stated: percentFromRange is round((1 - value/min) * 100) when
\* value < min, round((value/max - 1) * 100) when value > max, and 0 for
\* every value in the range.
C4_PercentFromRange_AsStated ==
  (ClassifyReturned /\ IsNum(args.min) /\ IsNum(args.max)) =>
    LET v  == args.value
        lo == args.min
        hi == args.max
        p  == ret.percentFromRange
    IN  /\ FGt(lo, v) => IsRounded(p, PercentBelow(v, lo))
        /\ FGt(v, hi) => IsRounded(p, PercentAbove(v, hi))
        /\ (~FGt(lo, v) /\ ~FGt(v, hi)) => p = Int2Num(0)

\* C4 amended: percentFromRange is -round((1 - value/min) * 100) when
\* value < min (the deviation below the range carries a minus sign)
\* (-50 for classify(5, 10, 12)); otherwise, when value > max, it is
\* round((value/max - 1) * 100) (20 for classify(240, 125, 200); +Infinity
\* for max = 0); and it is 0 for every value in the range.  The percentages are computed in the language's
\* numbers.
C4_PercentFromRange ==
  (ClassifyReturned /\ IsNum(args.min) /\ IsNum(args.max)) =>
    LET v  == args.value
        lo == args.min
        hi == args.max
        p  == ret.percentFromRange
    IN  /\ FGt(lo, v) => IsRounded(FNeg(p), PercentBelow(v, lo))
        /\ (~FGt(lo, v) /\ FGt(v, hi)) => IsRounded(p, PercentAbove(v, hi))
        /\ (~FGt(lo, v) /\ FGt(v, hi) /\ IsZero(hi)) => p = PosInf
        /\ (~FGt(lo, v) /\ ~FGt(v, hi)) => p = Int2Num(0)
        /\ (v = Int2Num(240) /\ lo = Int2Num(125) /\ hi = Int2Num(200)) => p = Int2Num(20)
        /\ (v = Int2Num(5) /\ lo = Int2Num(10) /\ hi = Int2Num(12)) => p = Int2Num(-50)

\* C4 witness: a value below its range came back with a negative percentage
C4_Witness ==
  /\ ClassifyReturned /\ IsNum(args.min) /\ IsNum(args.max)
  /\ FGt(args.min, args.value)
  /\ IsNum(ret.percentFromRange)
  /\ FGt(DZero, ret.percentFromRange)

\* a range of numbers with min < max that holds the value
HoldsValue ==
  /\ IsNum(args.min) /\ IsNum(args.max)
  /\ FGt(args.max, args.min)
  /\ FGe(args.value, args.min)
  /\ FGe(args.max, args.value)

\* (value - min) / (max - min), in the numbers of the language
Position == FDiv(FSub(args.value, args.min), FSub(args.max, args.min))

\* C5: for min < max and min <= value <= max, with position =
\* (value - min)/(max - min), the status is borderline_low iff position < 0.10,
\* borderline_high iff position > 0.90, and normal otherwise.
C5_InRangeStatus ==
  (ClassifyReturned /\ HoldsValue) =>
    ret.status = IF FGt(Decimal(1, 10), Position) THEN "borderline_low"
                 ELSE IF FGt(Position, Decimal(9, 10)) THEN "borderline_high"
                 ELSE "normal"

\* C5 witness: a value exactly one tenth into its range was classified normal
C5_Witness ==
  /\ ClassifyReturned /\ HoldsValue
  /\ Position = Decimal(1, 10)
  /\ ret.status = "normal"

\* C6: a value equal to a bound of the range is in the range:
\* classify(min, min, max) is never below_range and classify(max, min, max)
\* is never above_range.
C6_BoundIsInRange ==
  ClassifyReturned =>
    /\ (IsNum(args.min) /\ args.value = args.min) => ret.status # "below_range"
    /\ (IsNum(args.max) /\ args.value = args.max) => ret.status # "above_range"

\* C6 witness: a value equal to min, with min < max, was classified
\* borderline_low
C6_Witness ==
  /\ ClassifyReturned /\ HoldsValue
  /\ args.value = args.min
  /\ ret.status = "borderline_low"

\* C7: when the caller supplies referenceMin and referenceMax as numbers (0
\* included), the normalized biomarker carries exactly those bounds and its
\* status is the one computed against them.
C7_SuppliedRangeUsed ==
  (/\ NormalizeReturned
   /\ ret.standardized
   /\ IsNum(args.biomarkerData.referenceMin)
   /\ IsNum(args.biomarkerData.referenceMax))
    => /\ ret.referenceMin = args.biomarkerData.referenceMin
       /\ ret.referenceMax = args.biomarkerData.referenceMax
       /\ ret.status = determineAbnormalStatus(ret.value,
                                               args.biomarkerData.referenceMin,
                                               args.biomarkerData.referenceMax).status

\* C8: a measurement supplied with referenceMin > referenceMax is rejected:
\* it is not classified and gets no status.
C8_InvertedRangeRejected ==
  (/\ NormalizeReturned
   /\ IsNum(args.biomarkerData.referenceMin)
   /\ IsNum(args.biomarkerData.referenceMax)
   /\ FGt(args.biomarkerData.referenceMin, args.biomarkerData.referenceMax))
    => ret.status = "undefined"

\* the indices of the keys that equal the name, and of those it contains
KeysEqual(n) ==
  { i \in 1..Len(biomarkerStandardization) : biomarkerStandardization[i].key = n }
KeysWithin(n) ==
  { i \in 1..Len(biomarkerStandardization) :
      includes(n, biomarkerStandardization[i].key) }
Least(S) == CHOOSE i \in S : \A j \in S : i <= j

Hemoglobins == { <<"h", "g", "b">>, <<"h", "b">>,
                 <<"h", "e", "m", "o", "g", "l", "o", "b", "i", "n">> }

\* C9: a name resolves, after lower-casing and trimming, to the entry of the
\* key it equals; the synonyms hgb, hb and hemoglobin resolve to one code;
\* otherwise it resolves to the entry of the first key of the table that it
\* contains, and to nothing if it contains none.
C9_NameResolution ==
  (pc = "returned" /\ op = "standardize") =>
    LET n == trim(toLowerCase(args))
    IN  /\ IF KeysEqual(n) # {} THEN
             /\ ret.found
             /\ ret.standardName = n
             /\ ret.code = biomarkerStandardization[Least(KeysEqual(n))].code
           ELSE IF KeysWithin(n) # {} THEN
             /\ ret.found
             /\ ret.standardName = biomarkerStandardization[Least(KeysWithin(n))].key
             /\ ret.code = biomarkerStandardization[Least(KeysWithin(n))].code
           ELSE ~ret.found
        /\ n \in Hemoglobins => ret.code = "718-7"

ConvertReturned == pc = "returned" /\ op = "convert"
ForwardKey == args.fromUnit \o "_to_" \o args.toUnit
ReverseKey == args.toUnit \o "_to_" \o args.fromUnit

\* a differs from b by no more than the rounding of a few operations:
\* |a - b| <= |b| / 10^9, or |a - b| <= 2^-1022, the least normal number,
\* below which the doubles are not spaced relative to their size
Close(a, b) ==
  \/ ~FGt(FAbs(FSub(a, b)), FMul(FAbs(b), Decimal(1, 1000000000)))
  \/ ~FGt(FAbs(FSub(a, b)), Dbl(1, <<1>>, -1022))

\* the converted value is beyond the greatest double: the result is an
\* infinity, for a value of more than 2^1000 in size
Overflows(r, v) == r.t = "inf" /\ IsNum(v) /\ FGt(FAbs(v), Power2(1000))

\* C10: convertUnit always returns a number (never NaN for a number): the
\* value itself for equal units; the value converted by the forward function
\* of the unit pair if the table has one; otherwise the value converted by
\* the inverse of the reverse function if the table has that (the reverse
\* function takes the result back to the value, up to rounding, unless the
\* result is beyond the greatest double and therefore an infinity); and the
\* value itself, with one warning, if the table has neither.
C10_ConvertUnitTotal ==
  ConvertReturned =>
    /\ ret.t \in {"dbl", "inf"}
    /\ args.fromUnit = args.toUnit => (ret = args.value /\ warnings = 0)
    /\ (args.fromUnit # args.toUnit /\ ForwardKey \in ConversionKeys) =>
         (ret = unitConversions(ForwardKey, args.value) /\ warnings = 0)
    /\ (/\ args.fromUnit # args.toUnit
        /\ ForwardKey \notin ConversionKeys
        /\ ReverseKey \in ConversionKeys) =>
         /\ Overflows(ret, args.value) \/ Close(unitConversions(ReverseKey, ret), args.value)
         /\ warnings = 0
    /\ (/\ args.fromUnit # args.toUnit
        /\ ForwardKey \notin ConversionKeys
        /\ ReverseKey \notin ConversionKeys) =>
         (ret = args.value /\ warnings = 1)

\* C10 witness: a value other than 0 was converted by the inverse of the
\* reverse function, the table having no forward function for the pair
C10_Witness ==
  /\ ConvertReturned
  /\ args.fromUnit # args.toUnit
  /\ ForwardKey \notin ConversionKeys
  /\ ReverseKey \in ConversionKeys
  /\ ~IsZero(args.value)
  /\ ret # args.value

-----------------------------------------------------------------------------
(* biomarkerInterpretation.js: identifyBiomarkerPatterns                   *)
(*                                                                         *)
(* A biomarker of the list is a record with a name (a sequence of          *)
(* characters) and a status.  A pattern is a record with the five fields   *)
(* of the object the code pushes; its biomarkers are a sequence of texts.  *)

\* the property names the rules read from biomarkerMap, each as the text the
\* code pushes onto a pattern and as the characters of the key
RuleNames ==
  <<
     [text |-> "hemoglobin", key |-> <<"h", "e", "m", "o", "g", "l", "o", "b", "i", "n">>],
     [text |-> "hematocrit", key |-> <<"h", "e", "m", "a", "t", "o", "c", "r", "i", "t">>],
     [text |-> "mcv", key |-> <<"m", "c", "v">>],
     [text |-> "glucose", key |-> <<"g", "l", "u", "c", "o", "s", "e">>],
     [text |-> "triglycerides", key |-> <<"t", "r", "i", "g", "l", "y", "c", "e", "r", "i", "d", "e", "s">>],
     [text |-> "hdl", key |-> <<"h", "d", "l">>],
     [text |-> "ldl", key |-> <<"l", "d", "l">>],
     [text |-> "tsh", key |-> <<"t", "s", "h">>],
     [text |-> "free t4", key |-> <<"f", "r", "e", "e", " ", "t", "4">>],
     [text |-> "creatinine", key |-> <<"c", "r", "e", "a", "t", "i", "n", "i", "n", "e">>],
     [text |-> "bun", key |-> <<"b", "u", "n">>],
     [text |-> "egfr", key |-> <<"e", "g", "f", "r">>]
  >>

KeyOf(text) == RuleNames[CHOOSE i \in 1..Len(RuleNames) : RuleNames[i].text = text].key

\* How a call ends: it returns a value, or it throws the TypeError of a
\* property read on undefined.
TypeError == [thrown |-> TRUE, name |-> "TypeError"]
Value(v)  == [thrown |-> FALSE, value |-> v]

\* the statements after an expression: skipped if it threw, else run on its
\* value
Then(outcome, Rest(_)) == IF outcome.thrown THEN outcome ELSE Rest(outcome.value)

\* status.includes(word), for the statuses of the classifier and the words
\* the code searches for; a biomarker without a status ("undefined") has
\* nothing to call includes on
statusIncludes(status, word) ==
  IF status = "undefined" THEN TypeError
  ELSE Value(\/ word = "below" /\ status = "below_range"
             \/ word = "above" /\ status = "above_range"
             \/ word = "borderline" /\ status \in {"borderline_low", "borderline_high"}
             \/ word = "normal" /\ status = "normal")

\* the indices of the biomarkers stored under a key of biomarkerMap
Named(biomarkers, text) ==
  { i \in 1..Len(biomarkers) : toLowerCase(biomarkers[i].name) = KeyOf(text) }

\* biomarkerMap[text]: the last biomarker of the list with that lower-case
\* name (a later one overwrites an earlier one), or nothing
biomarkerMap(biomarkers, text) ==
  IF Named(biomarkers, text) = {} THEN [present |-> FALSE, status |-> "undefined"]
  ELSE [present |-> TRUE,
        status |-> biomarkers[Greatest(Named(biomarkers, text))].status]

\* biomarkerMap[text] && biomarkerMap[text].status.includes(word): the status
\* is read only of a biomarker that is there
Shows(biomarkers, text, word) ==
  IF biomarkerMap(biomarkers, text).present
  THEN statusIncludes(biomarkerMap(biomarkers, text).status, word)
  ELSE Value(FALSE)

Pattern(name, description, confidence, biomarkers, recommendation) ==
  [name |-> name, description |-> description, confidence |-> confidence,
   biomarkers |-> biomarkers, recommendation |-> recommendation]

SeeProvider == "Consider discussing these results with your healthcare provider."

\* anemiaPattern as first built
AnemiaBase ==
  Pattern("Potential Anemia Pattern",
          "Your results show low hemoglobin, which may indicate anemia.",
          "medium", <<"hemoglobin">>, SeeProvider)

\* mutant: a low hematocrit is listed but does not raise the confidence
AnemiaHematocrit_KeepsConfidence(biomarkers, p) ==
  Then(Shows(biomarkers, "hematocrit", "below"),
       LAMBDA low :
         Value(IF low THEN
                 Pattern(p.name,
                         "Your results show low hemoglobin and hematocrit, which may indicate anemia.",
                         p.confidence, Append(p.biomarkers, "hematocrit"), p.recommendation)
               ELSE p))

\* the additional indicator hematocrit
AnemiaHematocrit(biomarkers, p) ==
  Then(Shows(biomarkers, "hematocrit", "below"),
       LAMBDA low :
         Value(IF low THEN
                 Pattern(p.name,
                         "Your results show low hemoglobin and hematocrit, which may indicate anemia.",
                         "high", Append(p.biomarkers, "hematocrit"), p.recommendation)
               ELSE p))

\* the additional indicator MCV: if (biomarkerMap['mcv']), its status is
\* searched for 'below' and, if that is not in it, for 'above'
AnemiaMcv(biomarkers, p) ==
  Then(Shows(biomarkers, "mcv", "below"),
       LAMBDA low :
         IF low THEN
           Value(Pattern(p.name,
                         p.description \o " The low MCV suggests this may be microcytic anemia, often associated with iron deficiency.",
                         p.confidence, Append(p.biomarkers, "mcv"), p.recommendation))
         ELSE
           Then(Shows(biomarkers, "mcv", "above"),
                LAMBDA high :
                  Value(IF high THEN
                          Pattern(p.name,
                                  p.description \o " The high MCV suggests this may be macrocytic anemia, which can be associated with vitamin B12 or folate deficiency.",
                                  p.confidence, Append(p.biomarkers, "mcv"), p.recommendation)
                        ELSE p)))

\* the patterns pushed by the anemia check; hematocrit and MCV are looked at
\* only when hemoglobin is below its range
AnemiaPatterns(biomarkers) ==
  Then(Shows(biomarkers, "hemoglobin", "below"),
       LAMBDA low :
         IF low THEN
           Then(AnemiaHematocrit(biomarkers, AnemiaBase),
                LAMBDA withHematocrit :
                  Then(AnemiaMcv(biomarkers, withHematocrit),
                       LAMBDA anemiaPattern : Value(<< anemiaPattern >>)))
         ELSE Value(<< >>))

\* metabolicRiskFactors, in the order of Object.entries
metabolicRiskFactors ==
  << [name |-> "glucose", word |-> "above"],
     [name |-> "triglycerides", word |-> "above"],
     [name |-> "hdl", word |-> "below"],
     [name |-> "ldl", word |-> "above"] >>

\* Array.prototype.join
RECURSIVE join(_, _)
join(list, separator) ==
  IF list = << >> THEN ""
  ELSE IF Len(list) = 1 THEN list[1]
  ELSE list[1] \o separator \o join(Tail(list), separator)

\* presentMetabolicFactors: the names of the factors that hold, from the i-th
\* on; the check of every factor whose biomarker is there reads its status
RECURSIVE presentMetabolicFactors(_, _)
presentMetabolicFactors(biomarkers, i) ==
  IF i > Len(metabolicRiskFactors) THEN Value(<< >>)
  ELSE
    Then(Shows(biomarkers, metabolicRiskFactors[i].name, metabolicRiskFactors[i].word),
         LAMBDA holds :
           Then(presentMetabolicFactors(biomarkers, i + 1),
                LAMBDA rest :
                  Value(IF holds THEN <<metabolicRiskFactors[i].name>> \o rest ELSE rest)))

\* mutant: the pattern is pushed from the first factor on
MetabolicPattern_FromOne(present) ==
  IF Len(present) >= 1 THEN
    << Pattern("Potential Metabolic Risk Pattern",
               "Your results show " \o ToString(Len(present))
                 \o " factors that may be associated with metabolic risk: "
                 \o join(present, ", ") \o ".",
               IF Len(present) >= 3 THEN "high" ELSE "medium",
               present,
               "Consider discussing lifestyle factors such as diet and exercise with your healthcare provider.") >>
  ELSE << >>

\* the patterns pushed for the factors present (metabolicRiskCount is their
\* number)
MetabolicPattern(present) ==
  IF Len(present) >= 2 THEN
    << Pattern("Potential Metabolic Risk Pattern",
               "Your results show " \o ToString(Len(present))
                 \o " factors that may be associated with metabolic risk: "
                 \o join(present, ", ") \o ".",
               IF Len(present) >= 3 THEN "high" ELSE "medium",
               present,
               "Consider discussing lifestyle factors such as diet and exercise with your healthcare provider.") >>
  ELSE << >>

MetabolicPatterns(biomarkers) ==
  Then(presentMetabolicFactors(biomarkers, 1),
       LAMBDA present : Value(MetabolicPattern(present)))

\* the pattern for an elevated TSH
ElevatedTsh(biomarkers) ==
  Then(Shows(biomarkers, "free t4", "below"),
       LAMBDA low :
         Value(IF low THEN
                 Pattern("Elevated TSH Pattern",
                         "Your results show elevated TSH with low Free T4, which may be consistent with hypothyroidism.",
                         "high", <<"tsh", "free t4">>, SeeProvider)
               ELSE
                 Pattern("Elevated TSH Pattern",
                         "Your results show elevated TSH, which may indicate the thyroid is being stimulated to produce more hormone.",
                         "medium", <<"tsh">>, SeeProvider)))

\* mutant: a low TSH is corroborated by a low Free T4
LowTsh_SameDirection(biomarkers) ==
  Then(Shows(biomarkers, "free t4", "below"),
       LAMBDA low :
         Value(IF low THEN
                 Pattern("Low TSH Pattern",
                         "Your results show low TSH with high Free T4, which may be consistent with hyperthyroidism.",
                         "high", <<"tsh", "free t4">>, SeeProvider)
               ELSE
                 Pattern("Low TSH Pattern",
                         "Your results show low TSH, which may indicate reduced thyroid stimulation.",
                         "medium", <<"tsh">>, SeeProvider)))

\* the pattern for a low TSH
LowTsh(biomarkers) ==
  Then(Shows(biomarkers, "free t4", "above"),
       LAMBDA high :
         Value(IF high THEN
                 Pattern("Low TSH Pattern",
                         "Your results show low TSH with high Free T4, which may be consistent with hyperthyroidism.",
                         "high", <<"tsh", "free t4">>, SeeProvider)
               ELSE
                 Pattern("Low TSH Pattern",
                         "Your results show low TSH, which may indicate reduced thyroid stimulation.",
                         "medium", <<"tsh">>, SeeProvider)))

\* the patterns pushed by the thyroid check: if (biomarkerMap['tsh']), its
\* status is searched for 'above' and, if that is not in it, for 'below';
\* Free T4 is looked at only inside the two branches
ThyroidPatterns(biomarkers) ==
  Then(Shows(biomarkers, "tsh", "above"),
       LAMBDA above :
         IF above THEN
           Then(ElevatedTsh(biomarkers), LAMBDA thyroidPattern : Value(<< thyroidPattern >>))
         ELSE
           Then(Shows(biomarkers, "tsh", "below"),
                LAMBDA below :
                  IF below THEN
                    Then(LowTsh(biomarkers),
                         LAMBDA thyroidPattern : Value(<< thyroidPattern >>))
                  ELSE Value(<< >>)))

\* kidneyPattern as first built
KidneyBase ==
  Pattern("Elevated Creatinine Pattern",
          "Your results show elevated creatinine, which may indicate reduced kidney function.",
          "medium", <<"creatinine">>, SeeProvider)

\* the corroborating biomarker BUN
KidneyBun(biomarkers, p) ==
  Then(Shows(biomarkers, "bun", "above"),
       LAMBDA high :
         Value(IF high THEN
                 Pattern(p.name,
                         "Your results show elevated creatinine and BUN, which may indicate reduced kidney function.",
                         "high", Append(p.biomarkers, "bun"), p.recommendation)
               ELSE p))

\* the corroborating biomarker eGFR: the description is assigned, not
\* appended to
KidneyEgfr(biomarkers, p) ==
  Then(Shows(biomarkers, "egfr", "below"),
       LAMBDA low :
         Value(IF low THEN
                 Pattern(p.name,
                         "Your results show reduced eGFR with elevated creatinine, which may indicate reduced kidney function.",
                         "high", Append(p.biomarkers, "egfr"), p.recommendation)
               ELSE p))

\* the patterns pushed by the kidney check; BUN and eGFR are looked at only
\* when creatinine is above its range
KidneyPatterns(biomarkers) ==
  Then(Shows(biomarkers, "creatinine", "above"),
       LAMBDA high :
         IF high THEN
           Then(KidneyBun(biomarkers, KidneyBase),
                LAMBDA withBun :
                  Then(KidneyEgfr(biomarkers, withBun),
                       LAMBDA kidneyPattern : Value(<< kidneyPattern >>)))
         ELSE Value(<< >>))

\* identifyBiomarkerPatterns(biomarkers): the four checks in their order; the
\* call throws where a check reads the status of a biomarker that has none
identifyBiomarkerPatterns(biomarkers) ==
  Then(AnemiaPatterns(biomarkers),
       LAMBDA anemia :
         Then(MetabolicPatterns(biomarkers),
              LAMBDA metabolic :
                Then(ThyroidPatterns(biomarkers),
                     LAMBDA thyroid :
                       Then(KidneyPatterns(biomarkers),
                            LAMBDA kidney :
                              Value(anemia \o metabolic \o thyroid \o kidney)))))

\* getBiomarkerInfo(name): biomarkerDatabase[name] || null.  The database is
\* an object literal, so that beside its five entries a name finds what every
\* object inherits (ObjectPrototypeKeys).
DatabaseKeys ==
  { <<"h", "e", "m", "o", "g", "l", "o", "b", "i", "n">>,
    <<"g", "l", "u", "c", "o", "s", "e">>,
    <<"t", "s", "h">>,
    <<"c", "r", "e", "a", "t", "i", "n", "i", "n", "e">>,
    <<"c", "h", "o", "l", "e", "s", "t", "e", "r", "o", "l">> }

getBiomarkerInfo(name) ==
  IF name \in DatabaseKeys THEN "entry"
  ELSE IF name \in ObjectPrototypeKeys THEN "inherited"
  ELSE "null"

\* the level of an abnormal result; an inherited value has no lowIndication
\* and no highIndication to join
AbnormalLevel(info, status) ==
  IF info = "inherited" THEN TypeError
  ELSE Then(statusIncludes(status, "borderline"),
            LAMBDA borderline : Value(IF borderline THEN "mild" ELSE "significant"))

\* getClinicalSignificance(name, status, category), its level
getClinicalSignificance(name, status) ==
  IF getBiomarkerInfo(toLowerCase(name)) = "null" THEN Value("unknown")
  ELSE IF status = "normal" THEN Value("normal")
  ELSE
    Then(statusIncludes(status, "below"),
         LAMBDA below :
           IF below THEN AbnormalLevel(getBiomarkerInfo(toLowerCase(name)), status)
           ELSE
             Then(statusIncludes(status, "above"),
                  LAMBDA above :
                    IF above
                    THEN AbnormalLevel(getBiomarkerInfo(toLowerCase(name)), status)
                    ELSE Value("unknown")))

\* interpretBiomarker(biomarker): the biomarker with its fields kept; the
\* texts added to it are left out
interpretBiomarker(biomarker) ==
  Then(getClinicalSignificance(biomarker.name, biomarker.status),
       LAMBDA significance : Value(biomarker))

\* biomarkers.map(interpretBiomarker), of the first n
RECURSIVE interpretedBiomarkers(_, _)
interpretedBiomarkers(biomarkers, n) ==
  IF n = 0 THEN Value(<< >>)
  ELSE Then(interpretedBiomarkers(biomarkers, n - 1),
            LAMBDA earlier :
              Then(interpretBiomarker(biomarkers[n]),
                   LAMBDA interpreted : Value(Append(earlier, interpreted))))

\* statusCounts of generateReportSummary after the first n biomarkers
RECURSIVE statusCounts(_, _)
statusCounts(biomarkers, n) ==
  IF n = 0 THEN Value([normal |-> 0, borderline |-> 0, abnormal |-> 0])
  ELSE
    Then(statusCounts(biomarkers, n - 1),
         LAMBDA counts :
           IF biomarkers[n].status = "normal"
           THEN Value([counts EXCEPT !.normal = @ + 1])
           ELSE Then(statusIncludes(biomarkers[n].status, "borderline"),
                     LAMBDA borderline :
                       Value(IF borderline THEN [counts EXCEPT !.borderline = @ + 1]
                             ELSE [counts EXCEPT !.abnormal = @ + 1])))

\* generateReportSummary(biomarkers, patterns), its counts
generateReportSummary(biomarkers, patterns) ==
  Then(statusCounts(biomarkers, Len(biomarkers)),
       LAMBDA counts : Value([statusCounts |-> counts, patternCount |-> Len(patterns)]))

\* the properties every object inherits, as categorizedBiomarkers does
ObjectPrototypeProperties ==
  { "constructor", "__proto__", "toString", "toLocaleString", "valueOf",
    "hasOwnProperty", "isPrototypeOf", "propertyIsEnumerable",
    "__defineGetter__", "__defineSetter__", "__lookupGetter__",
    "__lookupSetter__" }

\* categorizedBiomarkers of interpretHealthReport after the first n
\* biomarkers: the biomarkers of each category, in their order.  A category
\* that names an inherited property finds a value that is no array, and
\* push is not a function.
RECURSIVE categorizedBiomarkers(_, _)
categorizedBiomarkers(biomarkers, n) ==
  IF n = 0 THEN Value([category \in {} |-> << >>])
  ELSE
    Then(categorizedBiomarkers(biomarkers, n - 1),
         LAMBDA categorized :
           IF biomarkers[n].category \in DOMAIN categorized
           THEN Value([categorized EXCEPT
                         ![biomarkers[n].category] = Append(@, biomarkers[n])])
           ELSE IF biomarkers[n].category \in ObjectPrototypeProperties
           THEN TypeError
           ELSE Value([category \in DOMAIN categorized \cup {biomarkers[n].category} |->
                         IF category = biomarkers[n].category
                         THEN <<biomarkers[n]>>
                         ELSE categorized[category]]))

\* interpretHealthReport(biomarkers), as far as the patterns go: the
\* biomarkers interpreted, their grouping by category, the patterns of the
\* list and the summary, any of which may throw; the report returned is
\* shown by its biomarkers and its patterns
interpretHealthReport(biomarkers) ==
  Then(interpretedBiomarkers(biomarkers, Len(biomarkers)),
       LAMBDA interpreted :
         Then(categorizedBiomarkers(interpreted, Len(interpreted)),
              LAMBDA categorized :
                Then(identifyBiomarkerPatterns(interpreted),
                     LAMBDA patterns :
                       Then(generateReportSummary(interpreted, patterns),
                            LAMBDA summary :
                              Value([biomarkers |-> interpreted,
                                     patterns |-> patterns])))))

-----------------------------------------------------------------------------
(* Pattern detection: input sets and state machine                         *)

\* a panel: the biomarkers named by the texts of G, each with the status f
\* gives it or left out, from the i-th on
RECURSIVE Panel(_, _, _)
Panel(G, f, i) ==
  IF i > Len(G) THEN << >>
  ELSE IF f[i] = "absent" THEN Panel(G, f, i + 1)
  ELSE <<[name |-> KeyOf(G[i]), status |-> f[i]]>> \o Panel(G, f, i + 1)

Panels(G, statuses) ==
  { Panel(G, f, 1) : f \in [1..Len(G) -> statuses \cup {"absent"}] }

\* snapshots with the names spelled as a report may spell them, and one that
\* shows every pattern at once
ExampleSnapshots ==
  { << [name |-> <<"H", "e", "m", "o", "g", "l", "o", "b", "i", "n">>, status |-> "below_range"],
       [name |-> <<"H", "E", "M", "A", "T", "O", "C", "R", "I", "T">>, status |-> "below_range"],
       [name |-> <<"M", "C", "V">>, status |-> "above_range"] >>,
    << [name |-> <<"H", "e", "m", "o", "g", "l", "o", "b", "i", "n">>, status |-> "below_range"],
       [name |-> <<"G", "l", "u", "c", "o", "s", "e">>, status |-> "above_range"],
       [name |-> <<"L", "D", "L">>, status |-> "above_range"],
       [name |-> <<"T", "S", "H">>, status |-> "below_range"],
       [name |-> <<"F", "r", "e", "e", " ", "T", "4">>, status |-> "above_range"],
       [name |-> <<"C", "r", "e", "a", "t", "i", "n", "i", "n", "e">>, status |-> "above_range"],
       [name |-> <<"e", "G", "F", "R">>, status |-> "below_range"] >>,
    << [name |-> <<"V", "i", "t", "a", "m", "i", "n", " ", "D">>, status |-> "normal"],
       [name |-> <<"C", "a", "l", "c", "i", "u", "m">>, status |-> "normal"] >>,
    << [name |-> <<"H", "e", "m", "o", "g", "l", "o", "b", "i", "n">>, status |-> "below_range"],
       [name |-> <<"F", "e", "r", "r", "i", "t", "i", "n">>, status |-> "undefined"] >> }

\* the snapshots of each check, with every status of the classifier its rules
\* tell apart and with biomarkers that have no status
Snapshots ==
  Panels(<<"hemoglobin", "hematocrit", "mcv">>,
         {"below_range", "above_range", "normal", "borderline_low", "undefined"})
    \cup Panels(<<"glucose", "triglycerides", "hdl", "ldl">>,
                {"below_range", "above_range", "normal", "undefined"})
    \cup Panels(<<"tsh", "free t4">>,
                {"below_range", "above_range", "normal", "borderline_low",
                 "borderline_high", "undefined"})
    \cup Panels(<<"creatinine", "bun", "egfr">>,
                {"below_range", "above_range", "normal", "borderline_high", "undefined"})
    \cup ExampleSnapshots

\* a measurement as processJsonData hands it to normalizeBiomarker, without a
\* reference range
Parsed(name, value, unit) ==
  [name |-> name, value |-> value, unit |-> unit,
   referenceMin |-> Null, referenceMax |-> Null]

HemoglobinNames ==
  { <<"H", "e", "m", "o", "g", "l", "o", "b", "i", "n">>, <<"H", "g", "b">>, <<"H", "b">> }
HematocritNames == { <<"H", "e", "m", "a", "t", "o", "c", "r", "i", "t">>, <<"H", "C", "T">> }
CreatinineNames ==
  { <<"C", "r", "e", "a", "t", "i", "n", "i", "n", "e">>, <<"S", "e", "r", "u", "m", " ", "C", "r", "e", "a", "t", "i", "n", "i", "n", "e">> }
TshNames == { <<"T", "S", "H">>, <<"T", "h", "y", "r", "o", "i", "d", " ", "S", "t", "i", "m", "u", "l", "a", "t", "i", "n", "g", " ", "H", "o", "r", "m", "o", "n", "e">> }

\* reports of a blood count (hemoglobin 5 or 14 g/dL, hematocrit 11 or 40 %),
\* of a creatinine (1 or 5 mg/dL) and of a TSH (0 or 2 or 5 mIU/L), each under
\* the names labs use, one of which the normalizer does not know, and of a
\* measurement named as a property every object inherits
Reports ==
  { << Parsed(h, Int2Num(hv), "g/dL"), Parsed(c, Int2Num(cv), "%") >> :
      h \in HemoglobinNames, hv \in {5, 14}, c \in HematocritNames, cv \in {11, 40} }
    \cup { << Parsed(n, Int2Num(v), "mg/dL") >> : n \in CreatinineNames, v \in {1, 5} }
    \cup { << Parsed(n, Int2Num(v), "mIU/L") >> : n \in TshNames, v \in {0, 2, 5} }
    \cup { << Parsed(<<"c", "o", "n", "s", "t", "r", "u", "c", "t", "o", "r">>,
                     Int2Num(v), "mg/dL") >> : v \in {0, 5} }

\* a caller is about to have the patterns of a snapshot identified, or a
\* parsed report normalized and interpreted
PatternInit ==
  /\ pc = "call"
  /\ ret = NoReturn
  /\ warnings = 0
  /\ \/ op = "patterns" /\ args \in Snapshots
     \/ op = "report" /\ args \in Reports

\* what a call that ended leaves in pc and in ret
Ended(outcome) == IF outcome.thrown THEN "thrown" ELSE "returned"
Left(outcome)  == IF outcome.thrown THEN outcome ELSE outcome.value

\* identifyBiomarkerPatterns(biomarkers)
IdentifyBiomarkerPatterns ==
  /\ pc = "call"
  /\ op = "patterns"
  /\ ret' = Left(identifyBiomarkerPatterns(args))
  /\ pc' = Ended(identifyBiomarkerPatterns(args))
  /\ UNCHANGED <<op, args, warnings>>

\* interpretHealthReport(biomarkers) on the biomarkers normalizeBiomarker
\* makes of a parsed report; the warnings of convertUnit are written before
\* the report is interpreted
InterpretHealthReport ==
  /\ pc = "call"
  /\ op = "report"
  /\ ret' = Left(interpretHealthReport(NormalizeAll(args)))
  /\ warnings' = Cardinality({i \in 1..Len(args) : NormalizeAll(args)[i].warned})
  /\ pc' = Ended(interpretHealthReport(NormalizeAll(args)))
  /\ UNCHANGED <<op, args>>

PatternNext ==
  \/ IdentifyBiomarkerPatterns
  \/ InterpretHealthReport

PatternSpec == PatternInit /\ [][PatternNext]_vars

-----------------------------------------------------------------------------
(* Pattern detection: properties                                           *)

PatternsReturned == pc = "returned" /\ op = "patterns"
PatternsThrown   == pc = "thrown" /\ op = "patterns"
ReportReturned   == pc = "returned" /\ op = "report"

\* the snapshot holds the biomarker of that name with that status
Has(text, status) ==
  \E i \in 1..Len(args) :
    toLowerCase(args[i].name) = KeyOf(text) /\ args[i].status = status

\* the patterns returned whose name is one of the given ones
Reported(patterns, names) == { i \in 1..Len(patterns) : patterns[i].name \in names }

Listed(p) == { p.biomarkers[i] : i \in 1..Len(p.biomarkers) }

\* every biomarker of the snapshot has a status
AllHaveStatus == \A i \in 1..Len(args) : args[i].status # "undefined"

\* the call has ended, by returning or by throwing
PatternsEnded == PatternsReturned \/ PatternsThrown

AnemiaNames  == {"Potential Anemia Pattern"}
ThyroidNames == {"Elevated TSH Pattern", "Low TSH Pattern"}
KidneyNames  == {"Elevated Creatinine Pattern"}
MetabolicNames == {"Potential Metabolic Risk Pattern"}

\* the anemia check reads the status of a biomarker that has none: of the
\* hemoglobin, or, the hemoglobin being below its range, of the hematocrit or
\* the MCV
AnemiaUnreadable ==
  \/ Has("hemoglobin", "undefined")
  \/ /\ Has("hemoglobin", "below_range")
     /\ Has("hematocrit", "undefined") \/ Has("mcv", "undefined")

\* C11: the anemia pattern is reported, once, iff hemoglobin is below its
\* range; its confidence is high iff hematocrit is below its range too, and
\* medium otherwise; with hemoglobin, hematocrit and MCV all below range its
\* biomarker list holds all three.  This holds of every call that returns,
\* and a call returns whenever every biomarker of the snapshot has a status;
\* where the anemia check reads the status of a biomarker that has none the
\* call throws a TypeError and reports nothing.
C11_AnemiaPattern ==
  /\ PatternsReturned =>
       /\ Cardinality(Reported(ret, AnemiaNames))
            = IF Has("hemoglobin", "below_range") THEN 1 ELSE 0
       /\ \A i \in Reported(ret, AnemiaNames) :
            /\ ret[i].confidence
                 = IF Has("hematocrit", "below_range") THEN "high" ELSE "medium"
            /\ (Has("hematocrit", "below_range") /\ Has("mcv", "below_range"))
                 => {"hemoglobin", "hematocrit", "mcv"} \subseteq Listed(ret[i])
  /\ (PatternsEnded /\ AllHaveStatus) => PatternsReturned
  /\ (PatternsEnded /\ AnemiaUnreadable) => (PatternsThrown /\ ret = TypeError)

\* C11 witness: hemoglobin, hematocrit and MCV were all below range and one
\* anemia pattern of high confidence listing the three was returned
C11_Witness ==
  /\ PatternsReturned
  /\ Has("hemoglobin", "below_range")
  /\ Has("hematocrit", "below_range")
  /\ Has("mcv", "below_range")
  /\ \E i \in Reported(ret, AnemiaNames) :
       ret[i].confidence = "high" /\ Len(ret[i].biomarkers) = 3

\* the number of the four metabolic factors that hold in the snapshot
FactorCount ==
  Cardinality({ t \in {"glucose", "triglycerides", "ldl"} : Has(t, "above_range") })
    + (IF Has("hdl", "below_range") THEN 1 ELSE 0)

\* the metabolic check reads the status of a biomarker that has none: of any
\* of its four
MetabolicUnreadable ==
  \E t \in {"glucose", "triglycerides", "hdl", "ldl"} : Has(t, "undefined")

\* C12: the metabolic risk pattern is reported iff at least two of the
\* factors glucose above, triglycerides above, HDL below, LDL above hold; its
\* confidence is high for three or four factors and medium for two.  This
\* holds of every call that returns; a call in which one of the four
\* biomarkers has no status throws a TypeError and reports nothing, and a
\* call that throws has a biomarker without a status.
C12_MetabolicPattern ==
  /\ PatternsReturned =>
       /\ Cardinality(Reported(ret, MetabolicNames)) = IF FactorCount >= 2 THEN 1 ELSE 0
       /\ \A i \in Reported(ret, MetabolicNames) :
            ret[i].confidence = IF FactorCount >= 3 THEN "high" ELSE "medium"
  /\ PatternsThrown => ~AllHaveStatus
  /\ (PatternsEnded /\ MetabolicUnreadable) => (PatternsThrown /\ ret = TypeError)

\* C12 witness: exactly two factors held and a pattern of medium confidence
\* was returned
C12_Witness ==
  /\ PatternsReturned
  /\ FactorCount = 2
  /\ \E i \in Reported(ret, MetabolicNames) : ret[i].confidence = "medium"

\* the descriptions of the kidney pattern that speak of BUN, and of eGFR
SpeaksOfBun ==
  {"Your results show elevated creatinine and BUN, which may indicate reduced kidney function."}
SpeaksOfEgfr ==
  {"Your results show reduced eGFR with elevated creatinine, which may indicate reduced kidney function."}

\* C13: the renal pattern is reported iff creatinine is above range; its
\* confidence is high iff BUN is above range or eGFR is below range; every
\* corroborating biomarker is on the pattern's list and spoken of in its
\* description, also when both corroborate.
C13_RenalPattern ==
  PatternsReturned =>
    /\ Cardinality(Reported(ret, KidneyNames))
         = IF Has("creatinine", "above_range") THEN 1 ELSE 0
    /\ \A i \in Reported(ret, KidneyNames) :
         /\ ret[i].confidence
              = IF Has("bun", "above_range") \/ Has("egfr", "below_range")
                THEN "high" ELSE "medium"
         /\ Has("bun", "above_range")
              => ("bun" \in Listed(ret[i]) /\ ret[i].description \in SpeaksOfBun)
         /\ Has("egfr", "below_range")
              => ("egfr" \in Listed(ret[i]) /\ ret[i].description \in SpeaksOfEgfr)

\* the kidney check reads the status of a biomarker that has none: of the
\* creatinine, or, the creatinine being above its range, of the BUN or the
\* eGFR
KidneyUnreadable ==
  \/ Has("creatinine", "undefined")
  \/ /\ Has("creatinine", "above_range")
     /\ Has("bun", "undefined") \/ Has("egfr", "undefined")

\* TSH and Free T4 deviate in opposite directions
Opposite ==
  \/ Has("tsh", "above_range") /\ Has("free t4", "below_range")
  \/ Has("tsh", "below_range") /\ Has("free t4", "above_range")

\* the descriptions that speak of TSH alone
GenericThyroid ==
  {"Your results show elevated TSH, which may indicate the thyroid is being stimulated to produce more hormone.",
   "Your results show low TSH, which may indicate reduced thyroid stimulation."}

\* the thyroid check reads the status of a biomarker that has none: of the
\* TSH, or, the TSH being outside its range, of the Free T4
ThyroidUnreadable ==
  \/ Has("tsh", "undefined")
  \/ /\ Has("tsh", "above_range") \/ Has("tsh", "below_range")
     /\ Has("free t4", "undefined")

\* C14: the thyroid pattern is reported iff TSH is above or below its range;
\* its confidence is high exactly when Free T4 deviates in the opposite
\* direction (hypothyroid for TSH above, hyperthyroid for TSH below), and
\* medium with a description of TSH alone otherwise.  This holds of every
\* call that returns; a call returns unless a check reads the status of a
\* biomarker that has none, and where the thyroid check does so the call
\* throws a TypeError and reports nothing.
C14_ThyroidPattern ==
  /\ PatternsReturned =>
       /\ Cardinality(Reported(ret, ThyroidNames))
            = IF Has("tsh", "above_range") \/ Has("tsh", "below_range") THEN 1 ELSE 0
       /\ \A i \in Reported(ret, ThyroidNames) :
            /\ ret[i].confidence = IF Opposite THEN "high" ELSE "medium"
            /\ Opposite <=> ret[i].description \notin GenericThyroid
            /\ (Opposite /\ Has("tsh", "above_range"))
                 => ret[i].description
                      = "Your results show elevated TSH with low Free T4, which may be consistent with hypothyroidism."
            /\ (Opposite /\ Has("tsh", "below_range"))
                 => ret[i].description
                      = "Your results show low TSH with high Free T4, which may be consistent with hyperthyroidism."
  /\ (PatternsEnded /\ ~ThyroidUnreadable /\ ~AnemiaUnreadable /\ ~MetabolicUnreadable
        /\ ~KidneyUnreadable) => PatternsReturned
  /\ (PatternsEnded /\ ThyroidUnreadable) => (PatternsThrown /\ ret = TypeError)

\* C14 witness: TSH was below range and Free T4 above, and a pattern of high
\* confidence was returned
C14_Witness ==
  /\ PatternsReturned
  /\ Has("tsh", "below_range")
  /\ Has("free t4", "above_range")
  /\ \E i \in Reported(ret, ThyroidNames) :
       ret[i].confidence = "high" /\ ret[i].name = "Low TSH Pattern"

\* a normalized biomarker of the report has that code and that status
Coded(code, status) ==
  \E i \in 1..Len(ret.biomarkers) :
    ret.biomarkers[i].code = code /\ ret.biomarkers[i].status = status

\* C15: the patterns of a normalized report depend on the codes, not on the
\* names the lab used: the anemia pattern is reported iff the hemoglobin
\* (718-7) is below range, whatever its name, the kidney pattern iff the
\* creatinine (2160-0) is above range, and the thyroid pattern iff the TSH
\* (3016-3) is outside its range.
C15_PatternsByCode ==
  ReportReturned =>
    /\ (Reported(ret.patterns, AnemiaNames) # {}) <=> Coded("718-7", "below_range")
    /\ (Reported(ret.patterns, KidneyNames) # {}) <=> Coded("2160-0", "above_range")
    /\ (Reported(ret.patterns, ThyroidNames) # {})
         <=> (Coded("3016-3", "above_range") \/ Coded("3016-3", "below_range"))

-----------------------------------------------------------------------------
(* biomarkerInterpretation.js, correlation analysis: pairBiomarkerData,    *)
(* calculatePearsonCorrelation, interpretCorrelation, calculateCorrelations *)
(*                                                                         *)
(* A data point is a record with a value (a double) and a date.  A date is *)
(* a time counted in parts of a day since some midnight UTC.               *)

PartsPerDay == 2

\* date.toISOString().split('T')[0]: the calendar day of a time, UTC
isoDay(date) == date \div PartsPerDay

\* dateMap: the days of the points of a series
Days(data) == { isoDay(data[i].date) : i \in 1..Len(data) }

\* dateMap.get(day): the point set last for the day
PointOf(data, day) ==
  data[Greatest({ i \in 1..Len(data) : isoDay(data[i].date) = day })]

\* the pairs of the days in S, sorted by date
RECURSIVE PairedByDay(_, _, _)
PairedByDay(data1, data2, S) ==
  IF S = {} THEN << >>
  ELSE <<[date |-> Least(S) * PartsPerDay,
          value1 |-> PointOf(data1, Least(S)).value,
          value2 |-> PointOf(data2, Least(S)).value]>>
         \o PairedByDay(data1, data2, S \ {Least(S)})

pairBiomarkerData(data1, data2) ==
  PairedByDay(data1, data2, Days(data1) \cap Days(data2))

\* x.reduce((sum, val) => sum + val, 0) over the first i elements
RECURSIVE Reduce(_, _)
Reduce(x, i) ==
  IF i = 0 THEN DZero ELSE FAdd(Reduce(x, i - 1), x[i])

\* x[i]; beyond the end of the array it is undefined, NaN in arithmetic
Element(x, i) == IF i <= Len(x) THEN x[i] ELSE DNaN

Sums(covariance, varX, varY) ==
  [covariance |-> covariance, varX |-> varX, varY |-> varY]

\* one pass of the loop, for the differences of the i-th elements
Accumulate(s, diffX, diffY) ==
  Sums(FAdd(s.covariance, FMul(diffX, diffY)),
       FAdd(s.varX, FMul(diffX, diffX)),
       FAdd(s.varY, FMul(diffY, diffY)))

\* the sums after the passes of the loop for the first i elements
RECURSIVE Loop(_, _, _, _, _)
Loop(x, y, meanX, meanY, i) ==
  IF i = 0 THEN Sums(DZero, DZero, DZero)
  ELSE Accumulate(Loop(x, y, meanX, meanY, i - 1),
                  FSub(Element(x, i), meanX), FSub(Element(y, i), meanY))

\* the coefficient from the covariance and the standard deviations
Coefficient(covariance, stdX, stdY) ==
  IF FEq(stdX, DZero) \/ FEq(stdY, DZero) THEN DZero
  ELSE FDiv(covariance, FMul(stdX, stdY))

\* mutant: the variances in place of the standard deviations
FromSums_NoRoot(s) == Coefficient(s.covariance, s.varX, s.varY)

\* the coefficient from the sums: stdX = Math.sqrt(varX), stdY likewise
FromSums(s) == Coefficient(s.covariance, FSqrt(s.varX), FSqrt(s.varY))

calculatePearsonCorrelation(x, y) ==
  FromSums(Loop(x, y,
                FDiv(Reduce(x, Len(x)), FromInt(Len(x))),
                FDiv(Reduce(y, Len(y)), FromInt(Len(x))),
                Len(x)))

interpretCorrelation(coefficient) ==
  IF FGe(FAbs(coefficient), Decimal(8, 10)) THEN
    (IF FGt(coefficient, DZero) THEN "strong positive" ELSE "strong negative")
  ELSE IF FGe(FAbs(coefficient), Decimal(5, 10)) THEN
    (IF FGt(coefficient, DZero) THEN "moderate positive" ELSE "moderate negative")
  ELSE IF FGe(FAbs(coefficient), Decimal(3, 10)) THEN
    (IF FGt(coefficient, DZero) THEN "weak positive" ELSE "weak negative")
  ELSE "no significant"

\* the integer nearest to |a| * 100, a tie going up, for an a that is not
\* whole: the digits of a.toFixed(2)
Hundredths(a) ==
  Shr(BAdd(BMulSmall(a.m, 100), Shl(<<1>>, -a.e - 1)), -a.e)

\* parseFloat(coefficient.toFixed(2)): toFixed writes -0 without its sign
\* and a number below 0 with it, also when all its digits are 0; the digits
\* of a whole number are its own
toFixed2(a) ==
  IF a.t # "dbl" THEN a
  ELSE IF IsZero(a) THEN DZero
  ELSE IF a.e >= 0 THEN a
  ELSE IF Hundredths(a) = << >> THEN Zero(a.s)
  ELSE Ratio(a.s, Hundredths(a), <<100>>)

\* the object pushed for a pair of biomarkers with its paired data
Correlation(name1, name2, pairedData, coefficient) ==
  [biomarker1 |-> name1, biomarker2 |-> name2,
   coefficient |-> toFixed2(coefficient),
   dataPoints |-> Len(pairedData),
   relationship |-> interpretCorrelation(coefficient),
   pairedData |-> pairedData]

\* mutant: two paired points are enough for a correlation
CorrelationOf_FromTwo(name1, name2, pairedData) ==
  IF Len(pairedData) >= 2 THEN
    << Correlation(name1, name2, pairedData,
                   calculatePearsonCorrelation(
                     [i \in 1..Len(pairedData) |-> pairedData[i].value1],
                     [i \in 1..Len(pairedData) |-> pairedData[i].value2])) >>
  ELSE << >>

\* the correlations pushed for a pair of biomarkers
CorrelationOf(name1, name2, pairedData) ==
  IF Len(pairedData) >= 3 THEN
    << Correlation(name1, name2, pairedData,
                   calculatePearsonCorrelation(
                     [i \in 1..Len(pairedData) |-> pairedData[i].value1],
                     [i \in 1..Len(pairedData) |-> pairedData[i].value2])) >>
  ELSE << >>

\* the loops over i and j > i, from the pair (i, j) on; biomarkerData is the
\* sequence of the entries of the object, in the order of Object.keys
RECURSIVE CorrelationsFrom(_, _, _)
CorrelationsFrom(biomarkerData, i, j) ==
  IF i > Len(biomarkerData) THEN << >>
  ELSE IF j > Len(biomarkerData) THEN CorrelationsFrom(biomarkerData, i + 1, i + 2)
  ELSE CorrelationOf(biomarkerData[i].name, biomarkerData[j].name,
                     pairBiomarkerData(biomarkerData[i].data, biomarkerData[j].data))
         \o CorrelationsFrom(biomarkerData, i, j + 1)

calculateCorrelations(biomarkerData) == CorrelationsFrom(biomarkerData, 1, 2)

\* the filter of analyzeBiomarkerCorrelations for a significant correlation
Significant(corr) ==
  FGe(FAbs(corr.coefficient), Decimal(5, 10)) /\ corr.dataPoints >= 3


-----------------------------------------------------------------------------
(* The calls of the correlation functions *)

MaxSample == 2
MaxSlope == 2

Slopes == (-MaxSlope..MaxSlope) \ {0}
Intercepts == {0, 3}

\* the array of the doubles of a sequence of decimals, each n/d as <<n, d>>
Doubles(decimals) == [i \in 1..Len(decimals) |-> Decimal(decimals[i][1], decimals[i][2])]

Whole(ints) == [i \in 1..Len(ints) |-> <<ints[i], 1>>]

\* three measurements of small whole values against the values 1, 2, 3
SampleSeries ==
  { <<Whole(<<1, 2, 3>>), Whole(y)>> : y \in [1..3 -> 0..MaxSample] }

\* series whose coefficient lies just below a threshold
NearThreshold ==
  { <<Whole(<<1, 2, 5>>), Whole(<<0, 5, 6>>)>>,
    <<Whole(<<1, 2, 5>>), Whole(<<2, 0, 5>>)>>,
    <<Whole(<<1, 2, 3, 4>>), Whole(<<1, 0, 4, 1>>)>>,
    <<Whole(<<1, 2, 3, 4>>), Whole(<<4, 1, 0, 1>>)>> }

LinearX ==
  { Whole(<<1, 2, 3>>), Whole(<<2, 5, 3, 9, 4>>),
    << <<54, 10>>, <<56, 10>>, <<61, 10>> >>,
    << <<1, 10>>, <<3, 10>>, <<7, 10>>, <<2, 10>> >> }

\* y = a * x + b computed in doubles
Line(x, a, b) == [i \in 1..Len(x) |-> FAdd(FMul(FromInt(a), x[i]), FromInt(b))]

ConstantValues == { <<2, 1>>, <<54, 10>>, <<1, 10>>, <<9, 10>> }

Thrice(c) == <<c, c, c>>

ConstantSeries ==
  { <<Thrice(c), Thrice(d)>> : c \in ConstantValues, d \in ConstantValues }
    \cup { <<Thrice(c), Whole(<<1, 2, 4>>)>> : c \in ConstantValues }
    \cup { <<Whole(<<1, 2, 4>>), Thrice(c)>> : c \in ConstantValues }

UnequalLengths ==
  { << << >>, << >> >>,
    <<Whole(<<1, 2, 3>>), Whole(<<2, 4, 6, 8, 10>>)>>,
    <<Whole(<<1, 2, 3, 4, 5>>), Whole(<<2, 4, 6>>)>>,
    <<Whole(<<2, 2, 2>>), Whole(<<1>>)>>,
    << << >>, Whole(<<1, 2>>)>>,
    <<Whole(<<1, 2>>), << >> >> }

PearsonArgs ==
  { [x |-> Doubles(p[1]), y |-> Doubles(p[2])]
      : p \in SampleSeries \cup NearThreshold \cup ConstantSeries \cup UnequalLengths }
    \cup { [x |-> Doubles(x), y |-> Line(Doubles(x), a, b)]
             : x \in LinearX, a \in Slopes, b \in Intercepts }

\* the measurements of a biomarker over some days in the order of their
\* dates: for each day no point, a point in the first part of the day, a
\* point in the last part, or both, the later with the value one higher
Timings == {"none", "early", "late"}

Reading(day, part, value) == [date |-> day * PartsPerDay + part, value |-> value]

ReadingsOn(day, timing, value) ==
  IF timing = "none" THEN << >>
  ELSE IF timing = "early" THEN <<Reading(day, 0, value)>>
  ELSE IF timing = "late" THEN <<Reading(day, PartsPerDay - 1, value)>>
  ELSE <<Reading(day, 0, value), Reading(day, PartsPerDay - 1, FAdd(value, FromInt(1)))>>

RECURSIVE Readings(_, _, _)
Readings(timing, values, day) ==
  IF day >= Len(values) THEN << >>
  ELSE ReadingsOn(day, timing[day], values[day + 1])
         \o Readings(timing, values, day + 1)

Daily(values) == Readings([d \in 0..(Len(values) - 1) |-> "early"], values, 0)

GlucoseValues == Doubles(Whole(<<90, 95, 100, 92>>))
HbA1cValues == Doubles(<< <<54, 10>>, <<56, 10>>, <<61, 10>>, <<55, 10>> >>)
LdlValues == Doubles(Whole(<<130, 110, 120, 100>>))

Series(name, data) == [name |-> name, data |-> data]

\* two biomarkers, the second measured on some of the days of the first
TwoBiomarkers ==
  { << Series("Glucose", Daily(GlucoseValues)),
       Series("HbA1c", Readings(t, HbA1cValues, 0)) >> : t \in [0..3 -> Timings] }

\* the timing of the days 0, 1, ... from a sequence
FromDay0(s) == [d \in 0..(Len(s) - 1) |-> s[d + 1]]

\* three biomarkers, one of them measured twice on a day
ThreeBiomarkers ==
  { << Series("Glucose", Daily(GlucoseValues)),
       Series("HbA1c", Readings(t, HbA1cValues, 0)),
       Series("LDL", Readings(u, LdlValues, 0)) >>
      : t \in { FromDay0(<<"late", "late", "late", "none">>), FromDay0(<<"early", "early", "none", "none">>) },
        u \in { FromDay0(<<"early", "both", "early", "early">>),
                FromDay0(<<"late", "both", "none", "none">>),
                FromDay0(<<"none", "both", "early", "both">>) } }

\* two biomarkers measured on the same days with the values of p
Together(p) ==
  << Series("Glucose", Daily(Doubles(p[1]))), Series("HbA1c", Daily(Doubles(p[2]))) >>

NearThresholdBiomarkers ==
  { Together(p) : p \in NearThreshold \cup { <<Whole(<<1, 2, 3>>), Whole(<<0, 2, 1>>)>>,
                                             <<Whole(<<1, 2, 3>>), Whole(<<2, 0, 1>>)>>,
                                             <<Whole(<<1, 2, 3>>), Whole(<<2, 4, 6>>)>>,
                                             <<Whole(<<1, 2, 3>>), Whole(<<5, 5, 5>>)>> } }

BiomarkerData == TwoBiomarkers \cup ThreeBiomarkers \cup NearThresholdBiomarkers

CorrelationInit ==
  /\ pc = "call"
  /\ ret = NoReturn
  /\ warnings = 0
  /\ \/ op = "pearson" /\ args \in PearsonArgs
     \/ op = "correlations" /\ args \in BiomarkerData

CalculatePearsonCorrelation ==
  /\ pc = "call" /\ op = "pearson"
  /\ pc' = "returned"
  /\ ret' = calculatePearsonCorrelation(args.x, args.y)
  /\ UNCHANGED <<op, args, warnings>>

CalculateCorrelations ==
  /\ pc = "call" /\ op = "correlations"
  /\ pc' = "returned"
  /\ ret' = calculateCorrelations(args)
  /\ UNCHANGED <<op, args, warnings>>

CorrelationNext == CalculatePearsonCorrelation \/ CalculateCorrelations

CorrelationSpec == CorrelationInit /\ [][CorrelationNext]_vars


-----------------------------------------------------------------------------
(* Properties of the correlation analysis *)

CorrelationsReturned == pc = "returned" /\ op = "correlations"
PearsonReturned == pc = "returned" /\ op = "pearson"

\* the calendar days on which both series have a measurement
SharedDays(data1, data2) ==
  { data1[i].date \div PartsPerDay :
      i \in { i \in 1..Len(data1) :
                \E j \in 1..Len(data2) :
                  data1[i].date \div PartsPerDay = data2[j].date \div PartsPerDay } }

\* the correlations returned for two biomarkers, in either order
Edges(correlations, name1, name2) ==
  { k \in 1..Len(correlations) :
      {correlations[k].biomarker1, correlations[k].biomarker2} = {name1, name2} }

\* the days two biomarkers of the data share
SharedBy(biomarkerData, name1, name2) ==
  UNION { SharedDays(biomarkerData[i].data, biomarkerData[j].data) :
            <<i, j>> \in { p \in (1..Len(biomarkerData)) \X (1..Len(biomarkerData)) :
                             /\ biomarkerData[p[1]].name = name1
                             /\ biomarkerData[p[2]].name = name2 } }

\* C16: calculateCorrelations returns one correlation for a pair of distinct
\* biomarkers whose series share at least 3 calendar days and none for any
\* other pair; a correlation counts the shared days as its data points, which
\* are 3 or more, and pairs values of the same day only
C16_OneEdgePerPair ==
  CorrelationsReturned =>
    /\ \A i \in 1..Len(args) : \A j \in (i + 1)..Len(args) :
         Cardinality(Edges(ret, args[i].name, args[j].name))
           = IF Cardinality(SharedDays(args[i].data, args[j].data)) >= 3 THEN 1 ELSE 0
    /\ \A k \in 1..Len(ret) :
         /\ ret[k].biomarker1 # ret[k].biomarker2
         /\ ret[k].dataPoints >= 3
         /\ ret[k].dataPoints = Len(ret[k].pairedData)
         /\ { ret[k].pairedData[n].date \div PartsPerDay : n \in 1..ret[k].dataPoints }
              = SharedBy(args, ret[k].biomarker1, ret[k].biomarker2)
         /\ Cardinality(SharedBy(args, ret[k].biomarker1, ret[k].biomarker2))
              = ret[k].dataPoints

\* a pair sharing 3 days has its correlation and a pair sharing 2 has none
C16_Witness ==
  /\ CorrelationsReturned
  /\ Len(ret) >= 1
  /\ \E i \in 1..Len(args) : \E j \in (i + 1)..Len(args) :
       /\ Cardinality(SharedDays(args[i].data, args[j].data)) = 2
       /\ Edges(ret, args[i].name, args[j].name) = {}

\* all the values of x are the same
AllEqual(x) == \A i \in 1..Len(x) : \A j \in 1..Len(x) : FEq(x[i], x[j])

\* C17: for two series of one length of which one has all its values equal,
\* calculatePearsonCorrelation returns 0
C17_ZeroVariance ==
  (/\ PearsonReturned
   /\ Len(args.x) = Len(args.y)
   /\ AllEqual(args.x) \/ AllEqual(args.y)) => ret = DZero

\* C18: for two empty arrays or arrays of different lengths,
\* calculatePearsonCorrelation returns NaN
C18_NaNForUnequalLengths ==
  (/\ PearsonReturned
   /\ Len(args.x) = 0 \/ Len(args.x) # Len(args.y)) => ret = DNaN

\* r is within 1e-9 of the integer i
Within(r, i) == FGe(Decimal(1, 10^9), FAbs(FSub(r, FromInt(i))))

\* C19: for a series x that is not constant and y = a * x + b,
\* calculatePearsonCorrelation returns a coefficient within 1e-9 of 1 for a
\* positive a and within 1e-9 of -1 for a negative a
C19_PerfectCorrelation ==
  (PearsonReturned /\ ~AllEqual(args.x)) =>
    \A a \in Slopes : \A b \in Intercepts :
      args.y = Line(args.x, a, b) => Within(ret, IF a > 0 THEN 1 ELSE -1)

\* a falling line whose coefficient is not exactly -1
C19_Witness ==
  /\ PearsonReturned
  /\ ~AllEqual(args.x)
  /\ \E a \in Slopes : \E b \in Intercepts : a < 0 /\ args.y = Line(args.x, a, b)
  /\ ret # FromInt(-1)
  /\ Within(ret, -1)

Strong == {"strong positive", "strong negative"}
Moderate == {"moderate positive", "moderate negative"}
Weak == {"weak positive", "weak negative"}
Positive == {"strong positive", "moderate positive", "weak positive"}
Negative == {"strong negative", "moderate negative", "weak negative"}

\* the labels of the strength of a coefficient r
LabelsOf(r) ==
  IF FGe(FAbs(r), Decimal(8, 10)) THEN Strong
  ELSE IF FGe(FAbs(r), Decimal(5, 10)) THEN Moderate
  ELSE IF FGe(FAbs(r), Decimal(3, 10)) THEN Weak
  ELSE {"no significant"}

\* C20: the relationship of every correlation returned is the label of its
\* reported coefficient: strong from 0.8, moderate from 0.5, weak from 0.3,
\* positive or negative by its sign; a correlation that passes the filter for
\* significance is strong or moderate
C20_LabelOfReportedCoefficient ==
  CorrelationsReturned =>
    \A k \in 1..Len(ret) :
      /\ ret[k].relationship \in LabelsOf(ret[k].coefficient)
      /\ ret[k].relationship \in Positive => FGt(ret[k].coefficient, DZero)
      /\ ret[k].relationship \in Negative => FGt(DZero, ret[k].coefficient)
      /\ Significant(ret[k]) => ret[k].relationship \in Strong \cup Moderate

-----------------------------------------------------------------------------
(* biomarkerInterpretation.js, trend analysis: calculateTrend and          *)
(* analyzeBiomarkerTrends                                                   *)
(*                                                                         *)
(* A data point has a value, a date (a time in parts of a day, as in the   *)
(* correlation analysis), a unit and a reference range.                    *)

\* a point put into an array sorted by date, after the points that do not
\* come after it (Array.prototype.sort is stable)
RECURSIVE Inserted(_, _)
Inserted(sorted, point) ==
  IF sorted = << >> THEN <<point>>
  ELSE IF sorted[Len(sorted)].date - point.date <= 0 THEN Append(sorted, point)
  ELSE Append(Inserted(SubSeq(sorted, 1, Len(sorted) - 1), point), sorted[Len(sorted)])

\* dataPoints.sort((a, b) => a.date - b.date), of the first n points
RECURSIVE SortedByDate(_, _)
SortedByDate(dataPoints, n) ==
  IF n = 0 THEN << >> ELSE Inserted(SortedByDate(dataPoints, n - 1), dataPoints[n])

\* the sums of ordinary least squares
LeastSquares(n, sumX, sumY, sumXY, sumXX) ==
  [n |-> n, sumX |-> sumX, sumY |-> sumY, sumXY |-> sumXY, sumXX |-> sumXX]

Slope(s) ==
  FDiv(FSub(FMul(s.n, s.sumXY), FMul(s.sumX, s.sumY)),
       FSub(FMul(s.n, s.sumXX), FMul(s.sumX, s.sumX)))

Fitted(s, slope) ==
  [slope |-> slope, intercept |-> FDiv(FSub(s.sumY, FMul(slope, s.sumX)), s.n)]

\* linearRegression of 'ml-regression': the least squares line through the
\* points (x[i], y[i]), slope and intercept in closed form from the sums
linearRegression(x, y) ==
  Fitted(LeastSquares(FromInt(Len(x)), Reduce(x, Len(x)), Reduce(y, Len(y)),
                      Reduce([i \in 1..Len(x) |-> FMul(x[i], y[i])], Len(x)),
                      Reduce([i \in 1..Len(x) |-> FMul(x[i], x[i])], Len(x))),
         Slope(LeastSquares(FromInt(Len(x)), Reduce(x, Len(x)), Reduce(y, Len(y)),
                      Reduce([i \in 1..Len(x) |-> FMul(x[i], y[i])], Len(x)),
                      Reduce([i \in 1..Len(x) |-> FMul(x[i], x[i])], Len(x)))))

\* normalizedX: the days from the first date, (val - minX) / (1000*60*60*24)
normalizedX(sorted) ==
  [i \in 1..Len(sorted) |->
     Decimal(sorted[i].date - Least({sorted[j].date : j \in 1..Len(sorted)}), PartsPerDay)]

\* the sum of the squares of the values less mean.  Math.pow(v, 2) is v * v
SumOfSquares(values, mean) ==
  Reduce([i \in 1..Len(values) |->
            FMul(FSub(values[i], mean), FSub(values[i], mean))], Len(values))

\* residuals: y[i] - (slope * x[i] + intercept)
Residuals(x, y, regression) ==
  [i \in 1..Len(y) |->
     FSub(y[i], FAdd(FMul(regression.slope, x[i]), regression.intercept))]

\* rSquared = 1 - residualSumSquares / totalSumSquares
RSquared(x, y, regression) ==
  FSub(FromInt(1),
       FDiv(SumOfSquares(Residuals(x, y, regression), DZero),
            SumOfSquares(y, FDiv(Reduce(y, Len(y)), FromInt(Len(y))))))

\* percentChange from the first value to the last
PercentChange(firstValue, lastValue) ==
  IF ~FEq(firstValue, DZero)
  THEN FMul(FDiv(FSub(lastValue, firstValue), FAbs(firstValue)), FromInt(100))
  ELSE DZero

Direction(slope) ==
  IF FGt(slope, DZero) THEN "increasing"
  ELSE IF FGt(DZero, slope) THEN "decreasing"
  ELSE "stable"

Significance(slope) ==
  IF FGe(FAbs(slope), Decimal(1, 10)) THEN "significant" ELSE "not significant"

\* the object returned for the sorted points, their days and values
TrendOf(biomarkerName, sorted, y, regression, rSquared) ==
  [biomarkerName |-> biomarkerName,
   dataPoints |-> Len(sorted),
   timeSpan |-> [start |-> sorted[1].date, end |-> sorted[Len(sorted)].date,
                 durationDays |-> Decimal(sorted[Len(sorted)].date - sorted[1].date,
                                          PartsPerDay)],
   trend |-> [slope |-> regression.slope, intercept |-> regression.intercept,
              rSquared |-> toFixed2(rSquared),
              percentChange |-> toFixed2(PercentChange(y[1], y[Len(y)]))],
   direction |-> Direction(regression.slope),
   significance |-> Significance(regression.slope),
   unit |-> sorted[1].unit,
   referenceRange |-> [min |-> sorted[1].referenceMin, max |-> sorted[1].referenceMax]]

Regressed(biomarkerName, sorted, x, y, regression) ==
  TrendOf(biomarkerName, sorted, y, regression, RSquared(x, y, regression))

Prepared(biomarkerName, sorted, x, y) ==
  Regressed(biomarkerName, sorted, x, y, linearRegression(x, y))

\* the value calculateTrend returns for points already sorted
TrendOfSorted(biomarkerName, sorted) ==
  Prepared(biomarkerName, sorted, normalizedX(sorted),
           [i \in 1..Len(sorted) |-> sorted[i].value])

\* calculateTrend(biomarkerName, dataPoints): what it returns; it leaves
\* dataPoints sorted
calculateTrend(biomarkerName, dataPoints) ==
  TrendOfSorted(biomarkerName, SortedByDate(dataPoints, Len(dataPoints)))

\* mutant: a single point has a trend
RECURSIVE TrendsFrom_OnePoint(_, _)
TrendsFrom_OnePoint(biomarkerData, i) ==
  IF i > Len(biomarkerData) THEN << >>
  ELSE (IF Len(biomarkerData[i].data) >= 1
        THEN <<calculateTrend(biomarkerData[i].name, biomarkerData[i].data)>>
        ELSE << >>)
         \o TrendsFrom_OnePoint(biomarkerData, i + 1)

\* the loop over Object.entries(biomarkerData), from the i-th entry on
RECURSIVE TrendsFrom(_, _)
TrendsFrom(biomarkerData, i) ==
  IF i > Len(biomarkerData) THEN << >>
  ELSE (IF Len(biomarkerData[i].data) >= 2
        THEN <<calculateTrend(biomarkerData[i].name, biomarkerData[i].data)>>
        ELSE << >>)
         \o TrendsFrom(biomarkerData, i + 1)

\* the trends with the message `Analyzed trends for ${trends.length} biomarkers.`
Analyzed(trends) ==
  [trends |-> trends, message |-> <<"Analyzed trends for ", Len(trends), " biomarkers.">>]

\* analyzeBiomarkerTrends for the data fetched
analyzeBiomarkerTrends(biomarkerData) ==
  IF Len(biomarkerData) = 0
  THEN [trends |-> << >>, message |-> "No biomarker data available for trend analysis."]
  ELSE Analyzed(TrendsFrom(biomarkerData, 1))

\* the data after analyzeBiomarkerTrends: every series with a trend is sorted
SortedData(biomarkerData) ==
  [i \in 1..Len(biomarkerData) |->
     IF Len(biomarkerData[i].data) >= 2
     THEN [biomarkerData[i] EXCEPT !.data = SortedByDate(@, Len(@))]
     ELSE biomarkerData[i]]

-----------------------------------------------------------------------------
(* The trend analysis as a state machine: calculateTrend is called with a  *)
(* name and an array of points, analyzeBiomarkerTrends with the data       *)
(* fetched for a user.  args holds the arguments, after the call as the    *)
(* call left them.                                                         *)

MaxPoints == 3

Point(date, value) ==
  [value |-> value, date |-> date, unit |-> "mg/dL",
   referenceMin |-> FromInt(70), referenceMax |-> FromInt(100)]

\* the dates of n points: a day apart, a part of a day apart, all at one
\* time, a day apart from the last to the first, and the first two exchanged
Ascending(n) == [i \in 1..n |-> (i - 1) * PartsPerDay]
Dates(n) ==
  { Ascending(n),
    [i \in 1..n |-> i - 1],
    [i \in 1..n |-> PartsPerDay],
    [i \in 1..n |-> (n - i) * PartsPerDay],
    [i \in 1..n |-> IF i = 1 THEN PartsPerDay ELSE IF i = 2 THEN 0 ELSE (i - 1) * PartsPerDay] }

\* n values from first on, each step/20 more than the one before
Steps == {-4, -2, -1, 0, 1, 2, 3}
Firsts == {0, 100, 108}
Stepped(first, step, n) == [i \in 1..n |-> Decimal(first + (i - 1) * step, 20)]

TrendValues(n) == { Stepped(first, step, n) : first \in Firsts, step \in Steps }

PointsOf(dates, values) == [i \in 1..Len(dates) |-> Point(dates[i], values[i])]

TrendArgs ==
  { [biomarkerName |-> "Glucose", dataPoints |-> PointsOf(dates, values)] :
      <<dates, values>> \in
        UNION { Dates(n) \X TrendValues(n) : n \in 2..MaxPoints } }

\* what fetchUserBiomarkerData returns: for each biomarker with a value its
\* points in the order of their dates
Histories == 0..MaxPoints
History(n, first, step) == PointsOf(Ascending(n), Stepped(first, step, n))

Present(series) == { i \in 1..Len(series) : Len(series[i].data) > 0 }

\* the entries of series that have points, in their order
RECURSIVE EntriesFrom(_, _)
EntriesFrom(series, i) ==
  IF i > Len(series) THEN << >>
  ELSE (IF Len(series[i].data) > 0 THEN <<series[i]>> ELSE << >>)
         \o EntriesFrom(series, i + 1)

FetchedData ==
  { EntriesFrom(<< Series("Glucose", History(g, 100, 2)),
                   Series("HbA1c", History(h, 108, 0)),
                   Series("LDL", History(l, 100, -4)) >>, 1) :
      g \in Histories, h \in Histories, l \in Histories }

TrendInit ==
  /\ pc = "call"
  /\ ret = NoReturn
  /\ warnings = 0
  /\ \/ op = "trend" /\ args \in TrendArgs
     \/ op = "trends" /\ args \in FetchedData

CalculateTrend ==
  /\ pc = "call" /\ op = "trend"
  /\ pc' = "returned"
  /\ ret' = calculateTrend(args.biomarkerName, args.dataPoints)
  /\ args' = [args EXCEPT !.dataPoints = SortedByDate(@, Len(@))]
  /\ UNCHANGED <<op, warnings>>

AnalyzeBiomarkerTrends ==
  /\ pc = "call" /\ op = "trends"
  /\ pc' = "returned"
  /\ ret' = analyzeBiomarkerTrends(args)
  /\ args' = SortedData(args)
  /\ UNCHANGED <<op, warnings>>

TrendNext == CalculateTrend \/ AnalyzeBiomarkerTrends

TrendSpec == TrendInit /\ [][TrendNext]_vars

-----------------------------------------------------------------------------
(* Properties of the trend analysis *)

TrendReturned == pc = "returned" /\ op = "trend"
TrendsReturned == pc = "returned" /\ op = "trends"

ValuesOf(dataPoints) == [i \in 1..Len(dataPoints) |-> dataPoints[i].value]

\* C21: for a constant series of two or more points calculateTrend returns
\* the slope 0 and rSquared 1, not NaN
C21_ConstantSeries ==
  (/\ TrendReturned
   /\ Len(args.dataPoints) >= 2
   /\ AllEqual(ValuesOf(args.dataPoints)))
    => /\ FEq(ret.trend.slope, DZero)
       /\ FEq(ret.trend.rSquared, FromInt(1))

\* C22: the direction of a trend returned is increasing exactly for a slope
\* above 0, decreasing exactly for a slope below 0 and stable exactly for the
\* slope 0, and the trend is significant exactly if |slope| >= 0.1
C22_DirectionAndSignificance ==
  TrendReturned =>
    /\ ret.direction = "increasing" <=> FGt(ret.trend.slope, DZero)
    /\ ret.direction = "decreasing" <=> FGt(DZero, ret.trend.slope)
    /\ ret.direction = "stable" <=> FEq(ret.trend.slope, DZero)
    /\ ret.significance = "significant" <=> FGe(FAbs(ret.trend.slope), Decimal(1, 10))

\* the names of the biomarkers of the data with at least two points, in
\* their order
RECURSIVE WithTwoPoints(_, _)
WithTwoPoints(biomarkerData, i) ==
  IF i > Len(biomarkerData) THEN << >>
  ELSE (IF Len(biomarkerData[i].data) < 2 THEN << >> ELSE <<biomarkerData[i].name>>)
         \o WithTwoPoints(biomarkerData, i + 1)

\* C23: analyzeBiomarkerTrends returns one trend for each biomarker with at
\* least two points and none for a biomarker with fewer; for no data it
\* returns no trend
C23_TrendFromTwoPoints ==
  TrendsReturned =>
    /\ [k \in 1..Len(ret.trends) |-> ret.trends[k].biomarkerName] = WithTwoPoints(args, 1)
    /\ \A k \in 1..Len(ret.trends) :
         \E i \in 1..Len(args) :
           /\ args[i].name = ret.trends[k].biomarkerName
           /\ ret.trends[k].dataPoints = Len(args[i].data)
    /\ args = << >> => ret.trends = << >>

\* a biomarker with one point is left out, one with more has its trend
C23_Witness ==
  /\ TrendsReturned
  /\ \E i \in 1..Len(args) : Len(args[i].data) = 1
  /\ Len(ret.trends) >= 1

\* C24: a call changes nothing outside its return value: the arguments are
\* after the call as they were before it
C24_ArgumentsUnchanged ==
  [][(pc = "call" /\ pc' = "returned") => args' = args]_vars

-----------------------------------------------------------------------------
(* HealthTrends.jsx, CustomTooltip, beside normalizer.js,                  *)
(* determineAbnormalStatus: the two places that grade a value against its  *)
(* reference range                                                         *)

Shown(status, color) == [status |-> status, color |-> color]

\* status and color before the check for critical values
OutOfRange(value, min, max) ==
  IF JsLt(value, min) THEN Shown("Low", "warning.main")
  ELSE IF JsGt(value, max) THEN Shown("High", "warning.main")
  ELSE Shown("Normal", "success.main")

\* the check for critical values against lowCritical and highCritical
Critical(value, lowCritical, highCritical, shown) ==
  IF FGe(lowCritical, ToNumber(value)) THEN Shown("Critical Low", "error.main")
  ELSE IF FGe(ToNumber(value), highCritical) THEN Shown("Critical High", "error.main")
  ELSE shown

\* the status and color CustomTooltip has for a value with its range; the
\* value is graded only if min !== undefined && max !== undefined, and only
\* then is the line of the status rendered
CustomTooltip(value, min, max) ==
  IF min.t # "undefined" /\ max.t # "undefined"
  THEN Critical(value,
                JsSub(min, JsMul(min, Decimal(2, 10))),
                JsAdd(max, JsMul(max, Decimal(2, 10))),
                OutOfRange(value, min, max))
  ELSE Shown("Normal", "success.main")

\* A reading is graded by the normalizer when its report is parsed and by
\* the tooltip when the chart shows it.
MaxReading == 16

ReferenceRanges == { <<5, 10>>, <<4, 8>>, <<0, 10>>, <<10, 12>> }

Graded ==
  { [value |-> v, min |-> r[1], max |-> r[2]] : v \in 0..MaxReading, r \in ReferenceRanges }

TierInit ==
  /\ pc = "call"
  /\ op = "grade"
  /\ args \in Graded
  /\ ret = NoReturn
  /\ warnings = 0

\* determineAbnormalStatus(value, minRange, maxRange) of the normalizer
GradeReading ==
  /\ pc = "call" /\ op = "grade"
  /\ pc' = "graded"
  /\ ret' = [normalizer |-> determineAbnormalStatus(Int2Num(args.value), Int2Num(args.min),
                                                     Int2Num(args.max))]
  /\ UNCHANGED <<op, args, warnings>>

\* CustomTooltip renders the reading
ShowTooltip ==
  /\ pc = "graded" /\ op = "grade"
  /\ pc' = "returned"
  /\ ret' = [normalizer |-> ret.normalizer,
             tooltip |-> CustomTooltip(FromInt(args.value), FromInt(args.min),
                                       FromInt(args.max))]
  /\ UNCHANGED <<op, args, warnings>>

TierNext == GradeReading \/ ShowTooltip

TierSpec == TierInit /\ [][TierNext]_vars

\* value lies more than 20% beyond the bound of the range it violates
BeyondBy20Percent(value, min, max) ==
  \/ value < min /\ 5 * (min - value) > min
  \/ value > max /\ 5 * (value - max) > max

\* C25: the normalizer and the tooltip reach one verdict: a value is of high
\* severity for the one and critical for the other exactly when it lies more
\* than 20% beyond the bound it violates
C25_OneThreshold ==
  (pc = "returned" /\ op = "grade") =>
    /\ ret.normalizer.severity = "high"
         <=> BeyondBy20Percent(args.value, args.min, args.max)
    /\ ret.tooltip.status \in {"Critical Low", "Critical High"}
         <=> BeyondBy20Percent(args.value, args.min, args.max)

-----------------------------------------------------------------------------
(* RiskAssessment.jsx, getRiskLevel, beside the risk scorer of the         *)
(* riskAssessment service: a score in [0, 1] gets its level from the       *)
(* service and is shown on a scale of 0 to 100                             *)

\* the level of the service for a score: below 0.3 low, below 0.7 moderate,
\* otherwise high
RiskLevel(score) ==
  IF FGt(Decimal(3, 10), score) THEN "low"
  ELSE IF FGt(Decimal(7, 10), score) THEN "moderate"
  ELSE "high"

\* getRiskLevel(score) of the component, score on the scale of 0 to 100
getRiskLevel(score) ==
  IF FGe(FromInt(25), score) THEN [text |-> "Low", color |-> "#4caf50"]
  ELSE IF FGe(FromInt(50), score) THEN [text |-> "Moderate", color |-> "#ff9800"]
  ELSE IF FGe(FromInt(75), score) THEN [text |-> "High", color |-> "#f44336"]
  ELSE [text |-> "Very High", color |-> "#d32f2f"]

\* the scores are the multiples of 1/ScoreSteps in [0, 1]
ScoreSteps == 100

Scores == { Decimal(k, ScoreSteps) : k \in 0..ScoreSteps }

RiskInit ==
  /\ pc = "call"
  /\ op = "risk"
  /\ args \in { [score |-> s] : s \in Scores }
  /\ ret = NoReturn
  /\ warnings = 0

\* the service assesses the risk
AssessRisk ==
  /\ pc = "call" /\ op = "risk"
  /\ pc' = "assessed"
  /\ ret' = [score |-> args.score, riskLevel |-> RiskLevel(args.score)]
  /\ UNCHANGED <<op, args, warnings>>

\* the component converts the score to a percentage and shows its level
ShowRisk ==
  /\ pc = "assessed" /\ op = "risk"
  /\ pc' = "returned"
  /\ ret' = [score |-> ret.score, riskLevel |-> ret.riskLevel,
             risk |-> FMul(ret.score, FromInt(100)),
             shown |-> getRiskLevel(FMul(ret.score, FromInt(100)))]
  /\ UNCHANGED <<op, args, warnings>>

RiskNext == AssessRisk \/ ShowRisk

RiskSpec == RiskInit /\ [][RiskNext]_vars

\* the level of a score by the thresholds 0.3 and 0.7
ByThresholds(score) ==
  IF FGt(Decimal(3, 10), score) THEN {"Low"}
  ELSE IF FGt(Decimal(7, 10), score) THEN {"Moderate"}
  ELSE {"High", "Very High"}

\* C26: a score below 0.3 is low, one from 0.3 and below 0.7 moderate, one
\* from 0.7 high or very high, and the level shown for the score is the one
\* of these thresholds
C26_LevelByThresholds ==
  (pc = "returned" /\ op = "risk") =>
    /\ ret.riskLevel = "low" <=> FGt(Decimal(3, 10), ret.score)
    /\ ret.riskLevel = "high" <=> FGe(ret.score, Decimal(7, 10))
    /\ ret.shown.text \in ByThresholds(ret.score)

-----------------------------------------------------------------------------
(* biomarkerInterpretation.js: saveCorrelations and generateHealthInsights *)
(* over the correlation store                                              *)
(*                                                                         *)
(* The store is the sequence of the rows of prisma.correlation, a row      *)
(* having the id of its position.                                          *)

\* prisma.correlation.findFirst({ where: { userId, biomarker1, biomarker2 } }):
\* the id of the first such row, 0 if there is none
findFirst(store, userId, correlation) ==
  IF \E k \in 1..Len(store) :
       /\ store[k].userId = userId
       /\ store[k].biomarker1 = correlation.biomarker1
       /\ store[k].biomarker2 = correlation.biomarker2
  THEN Least({ k \in 1..Len(store) :
                 /\ store[k].userId = userId
                 /\ store[k].biomarker1 = correlation.biomarker1
                 /\ store[k].biomarker2 = correlation.biomarker2 })
  ELSE 0

\* prisma.correlation.update({ where: { id }, data })
update(store, id, correlation) ==
  [store EXCEPT ![id] = [@ EXCEPT !.coefficient = correlation.coefficient,
                                  !.dataPoints = correlation.dataPoints,
                                  !.relationship = correlation.relationship]]

\* prisma.correlation.create({ data })
create(store, userId, correlation) ==
  Append(store, [id |-> Len(store) + 1, userId |-> userId,
                 biomarker1 |-> correlation.biomarker1,
                 biomarker2 |-> correlation.biomarker2,
                 coefficient |-> correlation.coefficient,
                 dataPoints |-> correlation.dataPoints,
                 relationship |-> correlation.relationship])

\* the sentence of generateCorrelationInsight on the pair of biomarkers
PairContext(biomarker1, biomarker2) ==
  IF {biomarker1, biomarker2} = {"glucose", "hba1c"} /\ biomarker1 # biomarker2
  THEN "This is an expected relationship as HbA1c reflects average glucose levels over time."
  ELSE IF {biomarker1, biomarker2} = {"ldl", "total cholesterol"} /\ biomarker1 # biomarker2
  THEN "This is expected as LDL is a component of total cholesterol."
  ELSE IF {biomarker1, biomarker2} = {"creatinine", "egfr"} /\ biomarker1 # biomarker2
  THEN "This inverse relationship is expected as eGFR is calculated using creatinine levels."
  ELSE "Consider discussing this relationship with your healthcare provider."

\* generateCorrelationInsight(correlation), the text in its pieces
generateCorrelationInsight(correlation) ==
  << "There is a ", correlation.relationship, " correlation (",
     toFixed2(correlation.coefficient), ") between ", correlation.biomarker1,
     " and ", correlation.biomarker2, ". ",
     "As ", correlation.biomarker1, " increases, ", correlation.biomarker2,
     IF FGt(correlation.coefficient, DZero)
     THEN " tends to increase as well. " ELSE " tends to decrease. ",
     PairContext(correlation.biomarker1, correlation.biomarker2) >>

\* the insight pushed for a correlation of the store
CorrelationInsight(correlation) ==
  [type |-> "correlation",
   title |-> <<"Strong relationship between ", correlation.biomarker1, " and ",
               correlation.biomarker2>>,
   description |-> generateCorrelationInsight(correlation),
   strength |-> "high",
   relatedBiomarkers |-> <<correlation.biomarker1, correlation.biomarker2>>,
   actionable |-> TRUE]

\* correlations.forEach: an insight for each coefficient of at least 0.7
RECURSIVE CorrelationInsights(_, _)
CorrelationInsights(correlations, n) ==
  IF n = 0 THEN << >>
  ELSE CorrelationInsights(correlations, n - 1)
         \o (IF FGe(FAbs(correlations[n].coefficient), Decimal(7, 10))
             THEN <<CorrelationInsight(correlations[n])>> ELSE << >>)

\* trend.slope: a result of calculateTrend has its slope in trend.trend and
\* no property slope, so that trend.slope is undefined, NaN in Math.abs
slopeOf(trend) == IF "slope" \in DOMAIN trend THEN trend.slope ELSE DNaN

\* the insight pushed for a trend
TrendInsight(trend) ==
  [type |-> "trend",
   title |-> <<IF trend.direction = "increasing" THEN "Rising" ELSE "Declining", " ",
               trend.biomarkerName, " levels">>,
   description |-> <<trend.biomarkerName, " has been ", trend.direction>>,
   strength |-> IF FGe(FAbs(slopeOf(trend)), Decimal(2, 10)) THEN "high" ELSE "medium",
   relatedBiomarkers |-> <<trend.biomarkerName>>,
   actionable |-> TRUE]

\* trends.forEach: an insight for each trend with |trend.slope| >= 0.1
RECURSIVE TrendInsights(_, _)
TrendInsights(trends, n) ==
  IF n = 0 THEN << >>
  ELSE TrendInsights(trends, n - 1)
         \o (IF FGe(FAbs(slopeOf(trends[n])), Decimal(1, 10))
             THEN <<TrendInsight(trends[n])>> ELSE << >>)

\* trendMap.get(name): the last trend of the name, if there is one
HasTrend(trends, name) == \E k \in 1..Len(trends) : trends[k].biomarkerName = name
trendMap(trends, name) ==
  trends[Greatest({ k \in 1..Len(trends) : trends[k].biomarkerName = name })]

BothSignificant(trends, correlation) ==
  /\ HasTrend(trends, correlation.biomarker1)
  /\ HasTrend(trends, correlation.biomarker2)
  /\ trendMap(trends, correlation.biomarker1).significance = "significant"
  /\ trendMap(trends, correlation.biomarker2).significance = "significant"

CombinedInsight(correlation, trend1, trend2) ==
  [type |-> "combined",
   title |-> <<correlation.biomarker1, " and ", correlation.biomarker2,
               " changing together">>,
   description |-> <<"There is a ", correlation.relationship, " correlation between ",
                     correlation.biomarker1, " and ", correlation.biomarker2,
                     ", and both are showing significant trends (",
                     trend1.direction, " and ", trend2.direction, " respectively). ",
                     "This pattern may be worth discussing with your healthcare provider.">>,
   strength |-> "high",
   relatedBiomarkers |-> <<correlation.biomarker1, correlation.biomarker2>>,
   actionable |-> TRUE]

\* generateCombinedInsights(correlations, trends), of the first n correlations
RECURSIVE generateCombinedInsights(_, _, _)
generateCombinedInsights(correlations, trends, n) ==
  IF n = 0 THEN << >>
  ELSE generateCombinedInsights(correlations, trends, n - 1)
         \o (IF BothSignificant(trends, correlations[n])
             THEN <<CombinedInsight(correlations[n],
                                    trendMap(trends, correlations[n].biomarker1),
                                    trendMap(trends, correlations[n].biomarker2))>>
             ELSE << >>)

Generated(insights) ==
  [insights |-> insights, message |-> <<"Generated ", Len(insights), " health insights.">>]

\* generateHealthInsights for the rows of the user and the trends analysed
generateHealthInsights(correlations, trends) ==
  Generated(CorrelationInsights(correlations, Len(correlations))
              \o TrendInsights(trends, Len(trends))
              \o generateCombinedInsights(correlations, trends, Len(correlations)))

\* the rows of a user, prisma.correlation.findMany({ where: { userId } })
RECURSIVE findMany(_, _, _)
findMany(store, userId, n) ==
  IF n = 0 THEN << >>
  ELSE findMany(store, userId, n - 1)
         \o (IF store[n].userId = userId THEN <<store[n]>> ELSE << >>)

-----------------------------------------------------------------------------
(* Runs of analyzeBiomarkerCorrelations for one user beside each other and *)
(* generateHealthInsights.  A run has fetched and calculated its           *)
(* significant correlations (args.significant) and saves them one by one,  *)
(* every await of saveCorrelations and of generateHealthInsights a step of *)
(* its own.  pc holds the place of each run and of generateHealthInsights, *)
(* with the row found and the rows read, ret the store and the insights    *)
(* returned.                                                               *)

Runs == {"run1", "run2"}

MaxCorrelations == 2

Edge(name1, name2, hundredths, relationship) ==
  [biomarker1 |-> name1, biomarker2 |-> name2,
   coefficient |-> Decimal(hundredths, 100), dataPoints |-> 3,
   relationship |-> relationship]

\* The significant correlations of a run have the names of a pair in the
\* order of Object.keys, the order of the dates of their first values, which
\* a report of an earlier date changes.
\* what a run saves: at most MaxCorrelations correlations, each pair of names
\* once
Saved ==
  { s \in { << >>,
            << Edge("Glucose", "HbA1c", 85, "strong positive") >>,
            << Edge("HbA1c", "Glucose", 85, "strong positive") >>,
            << Edge("Glucose", "HbA1c", 85, "strong positive"),
               Edge("Glucose", "LDL", 60, "moderate positive") >>,
            << Edge("Glucose", "HbA1c", 85, "strong positive"),
               Edge("Glucose", "LDL", 60, "moderate positive"),
               Edge("HbA1c", "LDL", -90, "strong negative") >> } :
      Len(s) <= MaxCorrelations }

\* what a run beside it saves
SavedBeside == { s \in Saved : Len(s) = 1 }

\* the history of the user that generateHealthInsights analyses
InsightHistories ==
  { << Series("Glucose", History(2, 100, 2)), Series("HbA1c", History(2, 108, 3)) >>,
    << Series("Glucose", History(2, 100, 1)), Series("HbA1c", History(2, 108, 3)) >> }

At(place, i, existing) == [at |-> place, i |-> i, existing |-> existing]

StoreInit ==
  /\ op = "save"
  /\ args \in { [userId |-> "user1", significant |-> s, history |-> h] :
                  s \in { t \in [Runs -> Saved] : t["run2"] \in SavedBeside },
                  h \in InsightHistories }
  /\ pc = [p \in Runs \cup {"insights"} |-> At("call", 1, 0)]
  /\ ret = [store |-> << >>, insights |-> NoReturn]
  /\ warnings = 0

\* saveCorrelations: await prisma.correlation.findFirst for the next
\* correlation of the run
FindFirst(run) ==
  /\ pc[run].at = "call"
  /\ pc[run].i <= Len(args.significant[run])
  /\ pc' = [pc EXCEPT ![run] =
              At("found", pc[run].i,
                 findFirst(ret.store, args.userId, args.significant[run][pc[run].i]))]
  /\ UNCHANGED <<op, args, ret, warnings>>

\* saveCorrelations: await update of the row found, or create if none was
UpdateOrCreate(run) ==
  /\ pc[run].at = "found"
  /\ ret' = [ret EXCEPT !.store =
               IF pc[run].existing # 0
               THEN update(@, pc[run].existing, args.significant[run][pc[run].i])
               ELSE create(@, args.userId, args.significant[run][pc[run].i])]
  /\ pc' = [pc EXCEPT ![run] = At("call", pc[run].i + 1, 0)]
  /\ UNCHANGED <<op, args, warnings>>

\* analyzeBiomarkerCorrelations returns after the last correlation
ReturnCorrelations(run) ==
  /\ pc[run].at = "call"
  /\ pc[run].i > Len(args.significant[run])
  /\ pc' = [pc EXCEPT ![run] = At("returned", pc[run].i, 0)]
  /\ UNCHANGED <<op, args, ret, warnings>>

\* generateHealthInsights(userId): await prisma.correlation.findMany, the
\* rows of the user as the store holds them at this moment
FindMany ==
  /\ pc["insights"].at = "call"
  /\ pc' = [pc EXCEPT !["insights"] =
              At("read", 1, findMany(ret.store, args.userId, Len(ret.store)))]
  /\ UNCHANGED <<op, args, ret, warnings>>

\* generateHealthInsights(userId): await analyzeBiomarkerTrends(userId), with
\* its read of the biomarker values, and the insights on the rows read
\* before and the trends; what the runs have written since is not seen
GenerateHealthInsights ==
  /\ pc["insights"].at = "read"
  /\ pc' = [pc EXCEPT !["insights"] = At("returned", 1, 0)]
  /\ ret' = [ret EXCEPT !.insights =
               generateHealthInsights(pc["insights"].existing,
                                      analyzeBiomarkerTrends(args.history).trends)]
  /\ UNCHANGED <<op, args, warnings>>

StoreNext ==
  \/ \E run \in Runs : FindFirst(run)
  \/ \E run \in Runs : UpdateOrCreate(run)
  \/ \E run \in Runs : ReturnCorrelations(run)
  \/ FindMany
  \/ GenerateHealthInsights

StoreSpec == StoreInit /\ [][StoreNext]_vars

-----------------------------------------------------------------------------
(* Properties of the store and of the insights *)

InsightsReturned == op = "save" /\ pc["insights"].at = "returned"

\* C27: generateHealthInsights returns no two insights of one type on the
\* same set of biomarkers
C27_InsightsDeduplicated ==
  InsightsReturned =>
    \A i \in 1..Len(ret.insights.insights) : \A j \in 1..Len(ret.insights.insights) :
      (/\ i # j
       /\ ret.insights.insights[i].type = ret.insights.insights[j].type)
        => { ret.insights.insights[i].relatedBiomarkers[k] :
               k \in 1..Len(ret.insights.insights[i].relatedBiomarkers) }
           # { ret.insights.insights[j].relatedBiomarkers[k] :
                 k \in 1..Len(ret.insights.insights[j].relatedBiomarkers) }

\* C29: the store holds at most one row for an unordered pair of biomarkers
\* of a user
C29_OneRowPerPair ==
  op = "save" =>
    \A i \in 1..Len(ret.store) : \A j \in 1..Len(ret.store) :
      (/\ i # j
       /\ ret.store[i].userId = ret.store[j].userId)
        => {ret.store[i].biomarker1, ret.store[i].biomarker2}
           # {ret.store[j].biomarker1, ret.store[j].biomarker2}

-----------------------------------------------------------------------------
(* ReportUpload.jsx: the upload wizard                                     *)
(*                                                                         *)
(* ret holds the state of the component (activeStep, file, reportDate,     *)
(* loading, error, success), args its props, pc the request of             *)
(* uploadHealthReport: whether one is pending, the file it carries and how *)
(* the last one ended.  A text that is null is the record Null.            *)

allowedTypes ==
  { "application/pdf", "image/jpeg", "image/png", "text/csv",
    "application/vnd.openxmlformats-officedocument.spreadsheetml.sheet" }

Message(text) == [message |-> text]

\* mutant: the size of the file is not checked
validateFile_AnySize(state, selectedFile) ==
  IF selectedFile.type \notin allowedTypes
  THEN [state EXCEPT !.error =
          Message("Invalid file type. Please upload PDF, JPEG, PNG, CSV, or Excel file.")]
  ELSE [state EXCEPT !.error = Null, !.file = selectedFile, !.activeStep = 1]

\* validateFile(selectedFile)
validateFile(state, selectedFile) ==
  IF selectedFile.type \notin allowedTypes
  THEN [state EXCEPT !.error =
          Message("Invalid file type. Please upload PDF, JPEG, PNG, CSV, or Excel file.")]
  ELSE IF selectedFile.size > 10 * 1024 * 1024
  THEN [state EXCEPT !.error = Message("File is too large. Maximum size is 10MB.")]
  ELSE [state EXCEPT !.error = Null, !.file = selectedFile, !.activeStep = 1]

\* the files a user may pick
FileTypes == { "application/pdf", "text/csv", "text/plain", "" }
FileSizes == { 1024, 10 * 1024 * 1024, 10 * 1024 * 1024 + 1 }
Files == { [type |-> t, size |-> s] : t \in FileTypes, s \in FileSizes }

\* what a rejected request carries in err.response?.data?.message
Rejections == { Message("Unsupported report"), Message(""), Null }

\* the prop onReportUploaded: not given, a function that returns, one that
\* throws a value, which is caught as a rejection is, or one that throws null
\* or undefined, of which the catch branch cannot read err.response
Callbacks == { "undefined", "returns", "throws", "throws null" }

\* err.response?.data?.message || 'Failed to upload report. Please try again.'
ErrorOf(err) ==
  IF err = Null \/ err.message = ""
  THEN Message("Failed to upload report. Please try again.")
  ELSE err

Request(state, file, outcome) == [request |-> state, file |-> file, outcome |-> outcome]

UploadInit ==
  /\ op = "upload"
  /\ args \in { [userId |-> u, onReportUploaded |-> f] :
                 u \in {"", "user1"}, f \in Callbacks }
  /\ pc = Request("none", Null, "none")
  /\ ret = [activeStep |-> 0, file |-> Null, reportDate |-> "", loading |-> FALSE,
            error |-> Null, success |-> FALSE]
  /\ warnings = 0

\* handleFileChange and handleDrop on the first step: validateFile(selectedFile)
SelectFile ==
  /\ op = "upload"
  /\ ret.activeStep = 0
  /\ \E selectedFile \in Files : ret' = validateFile(ret, selectedFile)
  /\ UNCHANGED <<op, args, pc, warnings>>

\* the date field of the second step: setReportDate(e.target.value)
SetReportDate ==
  /\ op = "upload"
  /\ ret.activeStep = 1
  /\ \E date \in {"", "2023-06-15"} : ret' = [ret EXCEPT !.reportDate = date]
  /\ UNCHANGED <<op, args, pc, warnings>>

\* handleNext, the Next button of the second step
HandleNext ==
  /\ op = "upload"
  /\ ret.activeStep = 1
  /\ ret' = IF ret.reportDate = ""
            THEN [ret EXCEPT !.error = Message("Please select a report date")]
            ELSE [ret EXCEPT !.error = Null, !.activeStep = 2]
  /\ UNCHANGED <<op, args, pc, warnings>>

\* handleBack, the Back button of the second and third step
HandleBack ==
  /\ op = "upload"
  /\ ret.activeStep > 0 /\ ret.activeStep < 3
  /\ ret' = [ret EXCEPT !.activeStep = @ - 1, !.error = Null]
  /\ UNCHANGED <<op, args, pc, warnings>>

\* the Upload Report button is rendered
UploadAvailable == ret.activeStep = 2 /\ ~ret.loading

\* handleSubmit up to await uploadHealthReport(formData)
HandleSubmit ==
  /\ op = "upload"
  /\ UploadAvailable
  /\ IF ret.file = Null \/ args.userId = ""
     THEN UNCHANGED <<pc, ret>>
     ELSE /\ ret' = [ret EXCEPT !.loading = TRUE, !.error = Null]
          /\ pc' = Request("pending", ret.file, "none")
  /\ UNCHANGED <<op, args, warnings>>

\* handleSubmit after the request has resolved: setSuccess(true),
\* setActiveStep(3) and the call of onReportUploaded(response.data), whose
\* exception the catch branch turns into an error; finally clears loading.
\* Of a thrown null or undefined the catch branch reads err.response, which
\* throws in its turn: setError is not called, finally clears loading and
\* the promise of handleSubmit is rejected.
UploadResolves ==
  /\ op = "upload"
  /\ pc.request = "pending"
  /\ IF args.onReportUploaded = "throws"
     THEN \E err \in Rejections :
            ret' = [ret EXCEPT !.success = TRUE, !.activeStep = 3,
                               !.error = ErrorOf(err), !.loading = FALSE]
     ELSE ret' = [ret EXCEPT !.success = TRUE, !.activeStep = 3, !.loading = FALSE]
  /\ pc' = Request("none", pc.file, "resolved")
  /\ UNCHANGED <<op, args, warnings>>

\* handleSubmit after the request has been rejected: the catch branch and
\* finally
UploadRejects ==
  /\ op = "upload"
  /\ pc.request = "pending"
  /\ \E err \in Rejections :
       ret' = [ret EXCEPT !.error = ErrorOf(err), !.loading = FALSE]
  /\ pc' = Request("none", pc.file, "rejected")
  /\ UNCHANGED <<op, args, warnings>>

\* handleReset, the button of the last step
HandleReset ==
  /\ op = "upload"
  /\ ret.activeStep = 3
  /\ ret' = [ret EXCEPT !.file = Null, !.reportDate = "", !.activeStep = 0,
                        !.error = Null, !.success = FALSE]
  /\ UNCHANGED <<op, args, pc, warnings>>

UploadNext ==
  \/ SelectFile \/ SetReportDate \/ HandleNext \/ HandleBack
  \/ HandleSubmit \/ UploadResolves \/ UploadRejects \/ HandleReset

UploadSpec == UploadInit /\ [][UploadNext]_vars

\* a file of an allowed type of at most 10 MB
PassesValidation(file) ==
  /\ file # Null
  /\ file.type \in allowedTypes
  /\ file.size <= 10485760

\* C28: the wizard gets to its success step only when a pending upload of a
\* file that passed the validation of type and size resolves; when the upload
\* is rejected it does not get to the success step, an error is shown and
\* loading is cleared, so that the Upload button of the third step is there
\* again
C28_SuccessOnlyAfterUpload ==
  [][/\ (ret.activeStep # 3 /\ ret'.activeStep = 3)
          => /\ pc.request = "pending"
             /\ PassesValidation(pc.file)
             /\ pc' = Request("none", pc.file, "resolved")
     /\ (pc.request = "pending" /\ pc' = Request("none", pc.file, "rejected"))
          => /\ ret'.activeStep # 3
             /\ ~ret'.success
             /\ ret'.error # Null /\ ret'.error.message # ""
             /\ ~ret'.loading
             /\ ret'.activeStep = 2 => UploadAvailable']_vars

\* the success step, after an upload that resolved
C28_Witness ==
  /\ op = "upload"
  /\ ret.activeStep = 3 /\ ret.success
  /\ pc.outcome = "resolved"

-----------------------------------------------------------------------------
(* dataProtection.js: rateLimit                                            *)
(*                                                                         *)
(* A string is the sequence of its characters.  args holds the options of  *)
(* the middleware, pc the clock (Date.now()), ret the Map requests, as the *)
(* set of its entries, and what became of the requests handled.            *)

\* String(n) for a natural number
RECURSIVE Digits(_)
Digits(n) ==
  IF n < 10 THEN << <<"0", "1", "2", "3", "4", "5", "6", "7", "8", "9">>[n + 1] >>
  ELSE Digits(n \div 10) \o Digits(n % 10)

startsWith(string, prefix) ==
  /\ Len(prefix) <= Len(string)
  /\ SubSeq(string, 1, Len(prefix)) = prefix

\* the entries left after the clean up of old requests
Recent(requests, now, windowMs) ==
  { entry \in requests : ~(now - entry.timestamp > windowMs) }

\* requests.set(key, timestamp)
MapSet(requests, key, timestamp) ==
  { entry \in requests : entry.key # key } \cup {[key |-> key, timestamp |-> timestamp]}

\* the number of the entries whose key starts with `${ip}:`
requestsForIP(requests, ip) ==
  Cardinality({ entry \in requests : startsWith(entry.key, ip \o <<":">>) })

Handled(requests, ip, now, passed, status) ==
  [requests |-> requests, ip |-> ip, now |-> now, passed |-> passed, status |-> status]

\* the middleware for a request of ip at the time now: the Map it leaves,
\* whether next() is called and the status it answers with (0 for none)
rateLimit(options, requests, ip, now) ==
  IF requestsForIP(Recent(requests, now, options.windowMs), ip) >= options.max
  THEN Handled(Recent(requests, now, options.windowMs), ip, now, FALSE, 429)
  ELSE Handled(MapSet(Recent(requests, now, options.windowMs),
                      ip \o <<":">> \o Digits(now), now),
               ip, now, TRUE, 0)

\* the options of the middleware, the time of the model and the number of
\* requests in it
WindowMs == 2
MaxPerWindow == 2
MaxTime == 3
MaxRequests == 4

\* the addresses of the clients
Ips ==
  { <<"1", "0", ".", "0", ".", "0", ".", "7">>,
    <<":", ":", "1">>,
    <<":", ":", "1", ":", "2">> }

RateInit ==
  /\ op = "rate"
  /\ args = [windowMs |-> WindowMs, max |-> MaxPerWindow]
  /\ pc = [now |-> 0]
  /\ ret = [requests |-> {}, handled |-> << >>]
  /\ warnings = 0

\* a millisecond passes
Tick ==
  /\ op = "rate"
  /\ pc.now < MaxTime
  /\ pc' = [now |-> pc.now + 1]
  /\ UNCHANGED <<op, args, ret, warnings>>

\* the middleware handles a request of ip
HandleRequest(ip) ==
  /\ op = "rate"
  /\ Len(ret.handled) < MaxRequests
  /\ ret' = [requests |-> rateLimit(args, ret.requests, ip, pc.now).requests,
             handled |-> Append(ret.handled,
                                [ip |-> ip, now |-> pc.now,
                                 passed |-> rateLimit(args, ret.requests, ip, pc.now).passed,
                                 status |-> rateLimit(args, ret.requests, ip, pc.now).status])]
  /\ UNCHANGED <<op, args, pc, warnings>>

RateNext == Tick \/ \E ip \in Ips : HandleRequest(ip)

RateSpec == RateInit /\ [][RateNext]_vars

\* the requests of ip passed on to next() at a time from start to end
PassedOn(handled, ip, start, end) ==
  { k \in 1..Len(handled) :
      /\ handled[k].ip = ip
      /\ handled[k].passed
      /\ start <= handled[k].now /\ handled[k].now <= end }

\* C30: in no window of the length windowMs are more than max requests of an
\* IP passed on to next(); a request is answered with 429 and not passed on
\* exactly if max requests of its own IP were passed on in the window before
\* it
C30_AtMostMaxPerWindow ==
  op = "rate" =>
    /\ \A ip \in Ips : \A start \in 0..MaxTime :
         Cardinality(PassedOn(ret.handled, ip, start, start + args.windowMs - 1)) <= args.max
    /\ \A k \in 1..Len(ret.handled) :
         /\ ret.handled[k].passed <=> ret.handled[k].status # 429
         /\ ~ret.handled[k].passed =>
              Cardinality(PassedOn(SubSeq(ret.handled, 1, k - 1), ret.handled[k].ip,
                                   ret.handled[k].now - args.windowMs,
                                   ret.handled[k].now)) >= args.max
====
